---- MODULE Spec2Model ----
(***************************************************************************)
(* Model of App.py (Stock-performance-analyzer): one run of the Streamlit  *)
(* script.  Strings are sequences of code points, so that                     *)
(* strip(), isupper(), len(), replace() and title() are computed rather    *)
(* than assumed.  The data provider (yfinance) is the environment: every   *)
(* call to it returns one of the outcomes the library can produce.         *)
(***************************************************************************)
EXTENDS Integers, Sequences, FiniteSets, TLC

VARIABLES
    pc,             \* position of the script / of the get_ticker call
    name,           \* App.py:30,59  the text being resolved
    response,       \* what yf.Search answers if it is asked (environment)
    ticker,         \* App.py:61     result of get_ticker
    searched,       \* number of yf.Search calls issued
    slot,           \* App.py:58     loop index i of the input loop
    inputs,         \* the texts read from the five inputs so far
    outcomes,       \* per input read: what it resolved to (NotAsked if falsy)
    valid_tickers,  \* App.py:55
    infoCalls,      \* sequence of symbols whose Ticker(t).info was fetched
    calCalls,       \* sequence of symbols whose Ticker(t).calendar was fetched
    downloads,      \* number of yf.download calls issued
    side_cards,     \* App.py:67-81  the tickers whose sidebar element is drawn
    shown,          \* the element drawn last, with the data it was drawn from
    typed,          \* "nothing", "spaces" or "text": what the inputs read so
                    \* far held at most (nothing / only whitespace / a text)
    failed,         \* the tickers whose info fetch has raised in the insights
    days_back,      \* App.py:89
    raw_data,       \* App.py:92     [index, cols] frame of closes
    chart_data,     \* App.py:96
    norm_data,      \* App.py:97
    traces,         \* App.py:101-113 names of the chart traces
    insights        \* App.py:122-171 the tickers whose insight column is drawn

vars == << pc, name, response, ticker, searched, slot, inputs, outcomes,
           valid_tickers, infoCalls, calCalls, downloads, side_cards,
           shown, typed, failed, days_back, raw_data, chart_data, norm_data, traces,
           insights >>

-----------------------------------------------------------------------------
(* Bounds of the model *)

\* longest text tried on get_ticker on its own
MaxLen == 6

\* most texts of one run that resolve to a symbol
MaxTickers == 2

-----------------------------------------------------------------------------
(* Strings.  A character is its Unicode code point, so that the tests and  *)
(* mappings of str (strip, isupper, title) are those of the interpreter on *)
(* every character, whatever the encoding this file is read in.            *)

\* the printable ASCII characters but the grave accent: U+0020 to U+005F
\* and U+0061 to U+007E, in order
Printable ==
    << " ", "!", "\"", "#", "$", "%", "&", "'", "(", ")", "*", "+", ",", "-",
       ".", "/", "0", "1", "2", "3", "4", "5", "6", "7", "8", "9", ":", ";",
       "<", "=", ">", "?", "@", "A", "B", "C", "D", "E", "F", "G", "H", "I",
       "J", "K", "L", "M", "N", "O", "P", "Q", "R", "S", "T", "U", "V", "W",
       "X", "Y", "Z", "[", "\\", "]", "^", "_", "a", "b", "c", "d", "e", "f",
       "g", "h", "i", "j", "k", "l", "m", "n", "o", "p", "q", "r", "s", "t",
       "u", "v", "w", "x", "y", "z", "{", "|", "}", "~" >>

\* ord(ch) of such a character, and the text of a literal
Ord(ch) == LET k == CHOOSE i \in DOMAIN Printable : Printable[i] = ch
           IN  IF k <= 64 THEN 31 + k ELSE 32 + k
Text(s) == [k \in DOMAIN s |-> Ord(s[k])]

SetMax(S) == CHOOSE x \in S : \A y \in S : y <= x
SetMin(S) == CHOOSE x \in S : \A y \in S : x <= y

\* the characters of a span <<first, last, step, ...>>, and of a table
InSpan(r, c) == r[1] <= c /\ c <= r[2] /\ (c - r[1]) % r[3] = 0
Span(r) == { r[1] + r[3] * i : i \in 0..((r[2] - r[1]) \div r[3]) }
Spanned(rs) == UNION { Span(rs[k]) : k \in DOMAIN rs }

\* the characters c with c.isupper(), as <<first, last, step>>
UpperRanges ==
    << <<65, 90, 1>>, <<192, 214, 1>>, <<216, 222, 1>>, <<256, 310, 2>>,
       <<313, 327, 2>>, <<330, 374, 2>>, <<376, 377, 1>>, <<379, 381, 2>>,
       <<385, 386, 1>>, <<388, 388, 1>>, <<390, 391, 1>>, <<393, 395, 1>>,
       <<398, 401, 1>>, <<403, 404, 1>>, <<406, 408, 1>>, <<412, 413, 1>>,
       <<415, 416, 1>>, <<418, 420, 2>>, <<422, 423, 1>>, <<425, 425, 1>>,
       <<428, 428, 1>>, <<430, 431, 1>>, <<433, 435, 1>>, <<437, 437, 1>>,
       <<439, 440, 1>>, <<444, 444, 1>>, <<452, 452, 1>>, <<455, 455, 1>>,
       <<458, 458, 1>>, <<461, 475, 2>>, <<478, 494, 2>>, <<497, 497, 1>>,
       <<500, 500, 1>>, <<502, 504, 1>>, <<506, 562, 2>>, <<570, 571, 1>>,
       <<573, 574, 1>>, <<577, 577, 1>>, <<579, 582, 1>>, <<584, 590, 2>>,
       <<880, 882, 2>>, <<886, 886, 1>>, <<895, 895, 1>>, <<902, 902, 1>>,
       <<904, 906, 1>>, <<908, 908, 1>>, <<910, 911, 1>>, <<913, 929, 1>>,
       <<931, 939, 1>>, <<975, 975, 1>>, <<978, 980, 1>>, <<984, 1006, 2>>,
       <<1012, 1012, 1>>, <<1015, 1015, 1>>, <<1017, 1018, 1>>,
       <<1021, 1071, 1>>, <<1120, 1152, 2>>, <<1162, 1214, 2>>,
       <<1216, 1217, 1>>, <<1219, 1229, 2>>, <<1232, 1326, 2>>,
       <<1329, 1366, 1>>, <<4256, 4293, 1>>, <<4295, 4295, 1>>,
       <<4301, 4301, 1>>, <<5024, 5109, 1>>, <<7312, 7354, 1>>,
       <<7357, 7359, 1>>, <<7680, 7828, 2>>, <<7838, 7934, 2>>,
       <<7944, 7951, 1>>, <<7960, 7965, 1>>, <<7976, 7983, 1>>,
       <<7992, 7999, 1>>, <<8008, 8013, 1>>, <<8025, 8031, 2>>,
       <<8040, 8047, 1>>, <<8120, 8123, 1>>, <<8136, 8139, 1>>,
       <<8152, 8155, 1>>, <<8168, 8172, 1>>, <<8184, 8187, 1>>,
       <<8450, 8450, 1>>, <<8455, 8455, 1>>, <<8459, 8461, 1>>,
       <<8464, 8466, 1>>, <<8469, 8469, 1>>, <<8473, 8477, 1>>,
       <<8484, 8488, 2>>, <<8490, 8493, 1>>, <<8496, 8499, 1>>,
       <<8510, 8511, 1>>, <<8517, 8517, 1>>, <<8544, 8559, 1>>,
       <<8579, 8579, 1>>, <<9398, 9423, 1>>, <<11264, 11311, 1>>,
       <<11360, 11360, 1>>, <<11362, 11364, 1>>, <<11367, 11371, 2>>,
       <<11373, 11376, 1>>, <<11378, 11378, 1>>, <<11381, 11381, 1>>,
       <<11390, 11392, 1>>, <<11394, 11490, 2>>, <<11499, 11501, 2>>,
       <<11506, 11506, 1>>, <<42560, 42604, 2>>, <<42624, 42650, 2>>,
       <<42786, 42798, 2>>, <<42802, 42862, 2>>, <<42873, 42875, 2>>,
       <<42877, 42878, 1>>, <<42880, 42886, 2>>, <<42891, 42893, 2>>,
       <<42896, 42898, 2>>, <<42902, 42920, 2>>, <<42922, 42926, 1>>,
       <<42928, 42932, 1>>, <<42934, 42946, 2>>, <<42948, 42951, 1>>,
       <<42953, 42953, 1>>, <<42960, 42960, 1>>, <<42966, 42968, 2>>,
       <<42997, 42997, 1>>, <<65313, 65338, 1>>, <<66560, 66599, 1>>,
       <<66736, 66771, 1>>, <<66928, 66938, 1>>, <<66940, 66954, 1>>,
       <<66956, 66962, 1>>, <<66964, 66965, 1>>, <<68736, 68786, 1>>,
       <<71840, 71871, 1>>, <<93760, 93791, 1>>, <<119808, 119833, 1>>,
       <<119860, 119885, 1>>, <<119912, 119937, 1>>, <<119964, 119964, 1>>,
       <<119966, 119967, 1>>, <<119970, 119970, 1>>, <<119973, 119974, 1>>,
       <<119977, 119980, 1>>, <<119982, 119989, 1>>, <<120016, 120041, 1>>,
       <<120068, 120069, 1>>, <<120071, 120074, 1>>, <<120077, 120084, 1>>,
       <<120086, 120092, 1>>, <<120120, 120121, 1>>, <<120123, 120126, 1>>,
       <<120128, 120132, 1>>, <<120134, 120134, 1>>, <<120138, 120144, 1>>,
       <<120172, 120197, 1>>, <<120224, 120249, 1>>, <<120276, 120301, 1>>,
       <<120328, 120353, 1>>, <<120380, 120405, 1>>, <<120432, 120457, 1>>,
       <<120488, 120512, 1>>, <<120546, 120570, 1>>, <<120604, 120628, 1>>,
       <<120662, 120686, 1>>, <<120720, 120744, 1>>, <<120778, 120778, 1>>,
       <<125184, 125217, 1>>, <<127280, 127305, 1>>, <<127312, 127337, 1>>,
       <<127344, 127369, 1>> >>

\* the characters c with c.islower()
LowerRanges ==
    << <<97, 122, 1>>, <<170, 170, 1>>, <<181, 181, 1>>, <<186, 186, 1>>,
       <<223, 246, 1>>, <<248, 255, 1>>, <<257, 309, 2>>, <<311, 312, 1>>,
       <<314, 326, 2>>, <<328, 329, 1>>, <<331, 375, 2>>, <<378, 380, 2>>,
       <<382, 384, 1>>, <<387, 389, 2>>, <<392, 392, 1>>, <<396, 397, 1>>,
       <<402, 402, 1>>, <<405, 405, 1>>, <<409, 411, 1>>, <<414, 414, 1>>,
       <<417, 421, 2>>, <<424, 424, 1>>, <<426, 427, 1>>, <<429, 429, 1>>,
       <<432, 432, 1>>, <<436, 438, 2>>, <<441, 442, 1>>, <<445, 447, 1>>,
       <<454, 454, 1>>, <<457, 457, 1>>, <<460, 474, 2>>, <<476, 477, 1>>,
       <<479, 493, 2>>, <<495, 496, 1>>, <<499, 501, 2>>, <<505, 561, 2>>,
       <<563, 569, 1>>, <<572, 572, 1>>, <<575, 576, 1>>, <<578, 578, 1>>,
       <<583, 589, 2>>, <<591, 659, 1>>, <<661, 696, 1>>, <<704, 705, 1>>,
       <<736, 740, 1>>, <<837, 837, 1>>, <<881, 883, 2>>, <<887, 887, 1>>,
       <<890, 893, 1>>, <<912, 912, 1>>, <<940, 974, 1>>, <<976, 977, 1>>,
       <<981, 983, 1>>, <<985, 1005, 2>>, <<1007, 1011, 1>>, <<1013, 1013, 1>>,
       <<1016, 1016, 1>>, <<1019, 1020, 1>>, <<1072, 1119, 1>>,
       <<1121, 1153, 2>>, <<1163, 1215, 2>>, <<1218, 1228, 2>>,
       <<1230, 1231, 1>>, <<1233, 1327, 2>>, <<1376, 1416, 1>>,
       <<4304, 4346, 1>>, <<4349, 4351, 1>>, <<5112, 5117, 1>>,
       <<7296, 7304, 1>>, <<7424, 7615, 1>>, <<7681, 7827, 2>>,
       <<7829, 7837, 1>>, <<7839, 7933, 2>>, <<7935, 7943, 1>>,
       <<7952, 7957, 1>>, <<7968, 7975, 1>>, <<7984, 7991, 1>>,
       <<8000, 8005, 1>>, <<8016, 8023, 1>>, <<8032, 8039, 1>>,
       <<8048, 8061, 1>>, <<8064, 8071, 1>>, <<8080, 8087, 1>>,
       <<8096, 8103, 1>>, <<8112, 8116, 1>>, <<8118, 8119, 1>>,
       <<8126, 8126, 1>>, <<8130, 8132, 1>>, <<8134, 8135, 1>>,
       <<8144, 8147, 1>>, <<8150, 8151, 1>>, <<8160, 8167, 1>>,
       <<8178, 8180, 1>>, <<8182, 8183, 1>>, <<8305, 8305, 1>>,
       <<8319, 8319, 1>>, <<8336, 8348, 1>>, <<8458, 8458, 1>>,
       <<8462, 8463, 1>>, <<8467, 8467, 1>>, <<8495, 8495, 1>>,
       <<8500, 8500, 1>>, <<8505, 8505, 1>>, <<8508, 8509, 1>>,
       <<8518, 8521, 1>>, <<8526, 8526, 1>>, <<8560, 8575, 1>>,
       <<8580, 8580, 1>>, <<9424, 9449, 1>>, <<11312, 11359, 1>>,
       <<11361, 11361, 1>>, <<11365, 11366, 1>>, <<11368, 11372, 2>>,
       <<11377, 11377, 1>>, <<11379, 11380, 1>>, <<11382, 11389, 1>>,
       <<11393, 11489, 2>>, <<11491, 11492, 1>>, <<11500, 11502, 2>>,
       <<11507, 11507, 1>>, <<11520, 11557, 1>>, <<11559, 11559, 1>>,
       <<11565, 11565, 1>>, <<42561, 42605, 2>>, <<42625, 42649, 2>>,
       <<42651, 42653, 1>>, <<42787, 42797, 2>>, <<42799, 42801, 1>>,
       <<42803, 42861, 2>>, <<42863, 42872, 1>>, <<42874, 42876, 2>>,
       <<42879, 42887, 2>>, <<42892, 42894, 2>>, <<42897, 42897, 1>>,
       <<42899, 42901, 1>>, <<42903, 42921, 2>>, <<42927, 42927, 1>>,
       <<42933, 42947, 2>>, <<42952, 42954, 2>>, <<42961, 42969, 2>>,
       <<42998, 42998, 1>>, <<43000, 43002, 1>>, <<43824, 43866, 1>>,
       <<43868, 43880, 1>>, <<43888, 43967, 1>>, <<64256, 64262, 1>>,
       <<64275, 64279, 1>>, <<65345, 65370, 1>>, <<66600, 66639, 1>>,
       <<66776, 66811, 1>>, <<66967, 66977, 1>>, <<66979, 66993, 1>>,
       <<66995, 67001, 1>>, <<67003, 67004, 1>>, <<67456, 67456, 1>>,
       <<67459, 67461, 1>>, <<67463, 67504, 1>>, <<67506, 67514, 1>>,
       <<68800, 68850, 1>>, <<71872, 71903, 1>>, <<93792, 93823, 1>>,
       <<119834, 119859, 1>>, <<119886, 119892, 1>>, <<119894, 119911, 1>>,
       <<119938, 119963, 1>>, <<119990, 119993, 1>>, <<119995, 119995, 1>>,
       <<119997, 120003, 1>>, <<120005, 120015, 1>>, <<120042, 120067, 1>>,
       <<120094, 120119, 1>>, <<120146, 120171, 1>>, <<120198, 120223, 1>>,
       <<120250, 120275, 1>>, <<120302, 120327, 1>>, <<120354, 120379, 1>>,
       <<120406, 120431, 1>>, <<120458, 120485, 1>>, <<120514, 120538, 1>>,
       <<120540, 120545, 1>>, <<120572, 120596, 1>>, <<120598, 120603, 1>>,
       <<120630, 120654, 1>>, <<120656, 120661, 1>>, <<120688, 120712, 1>>,
       <<120714, 120719, 1>>, <<120746, 120770, 1>>, <<120772, 120777, 1>>,
       <<120779, 120779, 1>>, <<122624, 122633, 1>>, <<122635, 122654, 1>>,
       <<125218, 125251, 1>> >>

\* the title-case letters (such as U+01C5), which str.isupper() rejects too
TitleRanges ==
    << <<453, 453, 1>>, <<456, 456, 1>>, <<459, 459, 1>>, <<498, 498, 1>>,
       <<8072, 8079, 1>>, <<8088, 8095, 1>>, <<8104, 8111, 1>>,
       <<8124, 8124, 1>>, <<8140, 8140, 1>>, <<8188, 8188, 1>> >>

\* the characters the lowering of a capital sigma looks through
CaseIgnorableRanges ==
    << <<39, 39, 1>>, <<46, 46, 1>>, <<58, 58, 1>>, <<94, 96, 2>>,
       <<168, 168, 1>>, <<173, 175, 2>>, <<180, 180, 1>>, <<183, 184, 1>>,
       <<688, 879, 1>>, <<884, 885, 1>>, <<890, 890, 1>>, <<900, 901, 1>>,
       <<903, 903, 1>>, <<1155, 1161, 1>>, <<1369, 1369, 1>>, <<1375, 1375, 1>>,
       <<1425, 1469, 1>>, <<1471, 1471, 1>>, <<1473, 1474, 1>>,
       <<1476, 1477, 1>>, <<1479, 1479, 1>>, <<1524, 1524, 1>>,
       <<1536, 1541, 1>>, <<1552, 1562, 1>>, <<1564, 1564, 1>>,
       <<1600, 1600, 1>>, <<1611, 1631, 1>>, <<1648, 1648, 1>>,
       <<1750, 1757, 1>>, <<1759, 1768, 1>>, <<1770, 1773, 1>>,
       <<1807, 1809, 2>>, <<1840, 1866, 1>>, <<1958, 1968, 1>>,
       <<2027, 2037, 1>>, <<2042, 2042, 1>>, <<2045, 2045, 1>>,
       <<2070, 2093, 1>>, <<2137, 2139, 1>>, <<2184, 2184, 1>>,
       <<2192, 2193, 1>>, <<2200, 2207, 1>>, <<2249, 2306, 1>>,
       <<2362, 2364, 2>>, <<2369, 2376, 1>>, <<2381, 2381, 1>>,
       <<2385, 2391, 1>>, <<2402, 2403, 1>>, <<2417, 2417, 1>>,
       <<2433, 2433, 1>>, <<2492, 2492, 1>>, <<2497, 2500, 1>>,
       <<2509, 2509, 1>>, <<2530, 2531, 1>>, <<2558, 2558, 1>>,
       <<2561, 2562, 1>>, <<2620, 2620, 1>>, <<2625, 2626, 1>>,
       <<2631, 2632, 1>>, <<2635, 2637, 1>>, <<2641, 2641, 1>>,
       <<2672, 2673, 1>>, <<2677, 2677, 1>>, <<2689, 2690, 1>>,
       <<2748, 2748, 1>>, <<2753, 2757, 1>>, <<2759, 2760, 1>>,
       <<2765, 2765, 1>>, <<2786, 2787, 1>>, <<2810, 2815, 1>>,
       <<2817, 2817, 1>>, <<2876, 2876, 1>>, <<2879, 2879, 1>>,
       <<2881, 2884, 1>>, <<2893, 2893, 1>>, <<2901, 2902, 1>>,
       <<2914, 2915, 1>>, <<2946, 2946, 1>>, <<3008, 3008, 1>>,
       <<3021, 3021, 1>>, <<3072, 3072, 1>>, <<3076, 3076, 1>>,
       <<3132, 3132, 1>>, <<3134, 3136, 1>>, <<3142, 3144, 1>>,
       <<3146, 3149, 1>>, <<3157, 3158, 1>>, <<3170, 3171, 1>>,
       <<3201, 3201, 1>>, <<3260, 3260, 1>>, <<3263, 3263, 1>>,
       <<3270, 3270, 1>>, <<3276, 3277, 1>>, <<3298, 3299, 1>>,
       <<3328, 3329, 1>>, <<3387, 3388, 1>>, <<3393, 3396, 1>>,
       <<3405, 3405, 1>>, <<3426, 3427, 1>>, <<3457, 3457, 1>>,
       <<3530, 3530, 1>>, <<3538, 3540, 1>>, <<3542, 3542, 1>>,
       <<3633, 3633, 1>>, <<3636, 3642, 1>>, <<3654, 3662, 1>>,
       <<3761, 3761, 1>>, <<3764, 3772, 1>>, <<3782, 3782, 1>>,
       <<3784, 3789, 1>>, <<3864, 3865, 1>>, <<3893, 3897, 2>>,
       <<3953, 3966, 1>>, <<3968, 3972, 1>>, <<3974, 3975, 1>>,
       <<3981, 3991, 1>>, <<3993, 4028, 1>>, <<4038, 4038, 1>>,
       <<4141, 4144, 1>>, <<4146, 4151, 1>>, <<4153, 4154, 1>>,
       <<4157, 4158, 1>>, <<4184, 4185, 1>>, <<4190, 4192, 1>>,
       <<4209, 4212, 1>>, <<4226, 4226, 1>>, <<4229, 4230, 1>>,
       <<4237, 4237, 1>>, <<4253, 4253, 1>>, <<4348, 4348, 1>>,
       <<4957, 4959, 1>>, <<5906, 5908, 1>>, <<5938, 5939, 1>>,
       <<5970, 5971, 1>>, <<6002, 6003, 1>>, <<6068, 6069, 1>>,
       <<6071, 6077, 1>>, <<6086, 6086, 1>>, <<6089, 6099, 1>>,
       <<6103, 6103, 1>>, <<6109, 6109, 1>>, <<6155, 6159, 1>>,
       <<6211, 6211, 1>>, <<6277, 6278, 1>>, <<6313, 6313, 1>>,
       <<6432, 6434, 1>>, <<6439, 6440, 1>>, <<6450, 6450, 1>>,
       <<6457, 6459, 1>>, <<6679, 6680, 1>>, <<6683, 6683, 1>>,
       <<6742, 6742, 1>>, <<6744, 6750, 1>>, <<6752, 6754, 2>>,
       <<6757, 6764, 1>>, <<6771, 6780, 1>>, <<6783, 6783, 1>>,
       <<6823, 6823, 1>>, <<6832, 6862, 1>>, <<6912, 6915, 1>>,
       <<6964, 6964, 1>>, <<6966, 6970, 1>>, <<6972, 6972, 1>>,
       <<6978, 6978, 1>>, <<7019, 7027, 1>>, <<7040, 7041, 1>>,
       <<7074, 7077, 1>>, <<7080, 7081, 1>>, <<7083, 7085, 1>>,
       <<7142, 7142, 1>>, <<7144, 7145, 1>>, <<7149, 7149, 1>>,
       <<7151, 7153, 1>>, <<7212, 7219, 1>>, <<7222, 7223, 1>>,
       <<7288, 7293, 1>>, <<7376, 7378, 1>>, <<7380, 7392, 1>>,
       <<7394, 7400, 1>>, <<7405, 7405, 1>>, <<7412, 7412, 1>>,
       <<7416, 7417, 1>>, <<7468, 7530, 1>>, <<7544, 7544, 1>>,
       <<7579, 7679, 1>>, <<8125, 8125, 1>>, <<8127, 8129, 1>>,
       <<8141, 8143, 1>>, <<8157, 8159, 1>>, <<8173, 8175, 1>>,
       <<8189, 8190, 1>>, <<8203, 8207, 1>>, <<8216, 8217, 1>>,
       <<8228, 8228, 1>>, <<8231, 8231, 1>>, <<8234, 8238, 1>>,
       <<8288, 8292, 1>>, <<8294, 8303, 1>>, <<8305, 8305, 1>>,
       <<8319, 8319, 1>>, <<8336, 8348, 1>>, <<8400, 8432, 1>>,
       <<11388, 11389, 1>>, <<11503, 11505, 1>>, <<11631, 11631, 1>>,
       <<11647, 11647, 1>>, <<11744, 11775, 1>>, <<11823, 11823, 1>>,
       <<12293, 12293, 1>>, <<12330, 12333, 1>>, <<12337, 12341, 1>>,
       <<12347, 12347, 1>>, <<12441, 12446, 1>>, <<12540, 12542, 1>>,
       <<40981, 40981, 1>>, <<42232, 42237, 1>>, <<42508, 42508, 1>>,
       <<42607, 42610, 1>>, <<42612, 42621, 1>>, <<42623, 42623, 1>>,
       <<42652, 42655, 1>>, <<42736, 42737, 1>>, <<42752, 42785, 1>>,
       <<42864, 42864, 1>>, <<42888, 42890, 1>>, <<42994, 42996, 1>>,
       <<43000, 43001, 1>>, <<43010, 43010, 1>>, <<43014, 43014, 1>>,
       <<43019, 43019, 1>>, <<43045, 43046, 1>>, <<43052, 43052, 1>>,
       <<43204, 43205, 1>>, <<43232, 43249, 1>>, <<43263, 43263, 1>>,
       <<43302, 43309, 1>>, <<43335, 43345, 1>>, <<43392, 43394, 1>>,
       <<43443, 43443, 1>>, <<43446, 43449, 1>>, <<43452, 43453, 1>>,
       <<43471, 43471, 1>>, <<43493, 43494, 1>>, <<43561, 43566, 1>>,
       <<43569, 43570, 1>>, <<43573, 43574, 1>>, <<43587, 43587, 1>>,
       <<43596, 43596, 1>>, <<43632, 43632, 1>>, <<43644, 43644, 1>>,
       <<43696, 43696, 1>>, <<43698, 43700, 1>>, <<43703, 43704, 1>>,
       <<43710, 43711, 1>>, <<43713, 43713, 1>>, <<43741, 43741, 1>>,
       <<43756, 43757, 1>>, <<43763, 43764, 1>>, <<43766, 43766, 1>>,
       <<43867, 43871, 1>>, <<43881, 43883, 1>>, <<44005, 44005, 1>>,
       <<44008, 44008, 1>>, <<44013, 44013, 1>>, <<64286, 64286, 1>>,
       <<64434, 64450, 1>>, <<65024, 65039, 1>>, <<65043, 65043, 1>>,
       <<65056, 65071, 1>>, <<65106, 65106, 1>>, <<65109, 65109, 1>>,
       <<65279, 65279, 1>>, <<65287, 65287, 1>>, <<65294, 65294, 1>>,
       <<65306, 65306, 1>>, <<65342, 65344, 2>>, <<65392, 65392, 1>>,
       <<65438, 65439, 1>>, <<65507, 65507, 1>>, <<65529, 65531, 1>>,
       <<66045, 66045, 1>>, <<66272, 66272, 1>>, <<66422, 66426, 1>>,
       <<67456, 67461, 1>>, <<67463, 67504, 1>>, <<67506, 67514, 1>>,
       <<68097, 68099, 1>>, <<68101, 68102, 1>>, <<68108, 68111, 1>>,
       <<68152, 68154, 1>>, <<68159, 68159, 1>>, <<68325, 68326, 1>>,
       <<68900, 68903, 1>>, <<69291, 69292, 1>>, <<69446, 69456, 1>>,
       <<69506, 69509, 1>>, <<69633, 69633, 1>>, <<69688, 69702, 1>>,
       <<69744, 69744, 1>>, <<69747, 69748, 1>>, <<69759, 69761, 1>>,
       <<69811, 69814, 1>>, <<69817, 69818, 1>>, <<69821, 69821, 1>>,
       <<69826, 69826, 1>>, <<69837, 69837, 1>>, <<69888, 69890, 1>>,
       <<69927, 69931, 1>>, <<69933, 69940, 1>>, <<70003, 70003, 1>>,
       <<70016, 70017, 1>>, <<70070, 70078, 1>>, <<70089, 70092, 1>>,
       <<70095, 70095, 1>>, <<70191, 70193, 1>>, <<70196, 70196, 1>>,
       <<70198, 70199, 1>>, <<70206, 70206, 1>>, <<70367, 70367, 1>>,
       <<70371, 70378, 1>>, <<70400, 70401, 1>>, <<70459, 70460, 1>>,
       <<70464, 70464, 1>>, <<70502, 70508, 1>>, <<70512, 70516, 1>>,
       <<70712, 70719, 1>>, <<70722, 70724, 1>>, <<70726, 70726, 1>>,
       <<70750, 70750, 1>>, <<70835, 70840, 1>>, <<70842, 70842, 1>>,
       <<70847, 70848, 1>>, <<70850, 70851, 1>>, <<71090, 71093, 1>>,
       <<71100, 71101, 1>>, <<71103, 71104, 1>>, <<71132, 71133, 1>>,
       <<71219, 71226, 1>>, <<71229, 71229, 1>>, <<71231, 71232, 1>>,
       <<71339, 71341, 2>>, <<71344, 71349, 1>>, <<71351, 71351, 1>>,
       <<71453, 71455, 1>>, <<71458, 71461, 1>>, <<71463, 71467, 1>>,
       <<71727, 71735, 1>>, <<71737, 71738, 1>>, <<71995, 71996, 1>>,
       <<71998, 71998, 1>>, <<72003, 72003, 1>>, <<72148, 72151, 1>>,
       <<72154, 72155, 1>>, <<72160, 72160, 1>>, <<72193, 72202, 1>>,
       <<72243, 72248, 1>>, <<72251, 72254, 1>>, <<72263, 72263, 1>>,
       <<72273, 72278, 1>>, <<72281, 72283, 1>>, <<72330, 72342, 1>>,
       <<72344, 72345, 1>>, <<72752, 72758, 1>>, <<72760, 72765, 1>>,
       <<72767, 72767, 1>>, <<72850, 72871, 1>>, <<72874, 72880, 1>>,
       <<72882, 72883, 1>>, <<72885, 72886, 1>>, <<73009, 73014, 1>>,
       <<73018, 73018, 1>>, <<73020, 73021, 1>>, <<73023, 73029, 1>>,
       <<73031, 73031, 1>>, <<73104, 73105, 1>>, <<73109, 73111, 2>>,
       <<73459, 73460, 1>>, <<78896, 78904, 1>>, <<92912, 92916, 1>>,
       <<92976, 92982, 1>>, <<92992, 92995, 1>>, <<94031, 94031, 1>>,
       <<94095, 94111, 1>>, <<94176, 94177, 1>>, <<94179, 94180, 1>>,
       <<110576, 110579, 1>>, <<110581, 110587, 1>>, <<110589, 110590, 1>>,
       <<113821, 113822, 1>>, <<113824, 113827, 1>>, <<118528, 118573, 1>>,
       <<118576, 118598, 1>>, <<119143, 119145, 1>>, <<119155, 119170, 1>>,
       <<119173, 119179, 1>>, <<119210, 119213, 1>>, <<119362, 119364, 1>>,
       <<121344, 121398, 1>>, <<121403, 121452, 1>>, <<121461, 121461, 1>>,
       <<121476, 121476, 1>>, <<121499, 121503, 1>>, <<121505, 121519, 1>>,
       <<122880, 122886, 1>>, <<122888, 122904, 1>>, <<122907, 122913, 1>>,
       <<122915, 122916, 1>>, <<122918, 122922, 1>>, <<123184, 123197, 1>>,
       <<123566, 123566, 1>>, <<123628, 123631, 1>>, <<125136, 125142, 1>>,
       <<125252, 125259, 1>>, <<127995, 127999, 1>>, <<917505, 917505, 1>>,
       <<917536, 917631, 1>>, <<917760, 917999, 1>> >>

\* c.title() of one character, as <<first, last, step, shift>>: the
\* characters of the span become c + shift
TitleShift ==
    << <<97, 122, 1, -32>>, <<181, 181, 1, 743>>, <<224, 246, 1, -32>>,
       <<248, 254, 1, -32>>, <<255, 255, 1, 121>>, <<257, 303, 2, -1>>,
       <<305, 305, 1, -232>>, <<307, 311, 2, -1>>, <<314, 328, 2, -1>>,
       <<331, 375, 2, -1>>, <<378, 382, 2, -1>>, <<383, 383, 1, -300>>,
       <<384, 384, 1, 195>>, <<387, 389, 2, -1>>, <<392, 392, 1, -1>>,
       <<396, 396, 1, -1>>, <<402, 402, 1, -1>>, <<405, 405, 1, 97>>,
       <<409, 409, 1, -1>>, <<410, 410, 1, 163>>, <<414, 414, 1, 130>>,
       <<417, 421, 2, -1>>, <<424, 424, 1, -1>>, <<429, 429, 1, -1>>,
       <<432, 432, 1, -1>>, <<436, 438, 2, -1>>, <<441, 441, 1, -1>>,
       <<445, 445, 1, -1>>, <<447, 447, 1, 56>>, <<452, 452, 1, 1>>,
       <<454, 454, 1, -1>>, <<455, 455, 1, 1>>, <<457, 457, 1, -1>>,
       <<458, 458, 1, 1>>, <<460, 476, 2, -1>>, <<477, 477, 1, -79>>,
       <<479, 495, 2, -1>>, <<497, 497, 1, 1>>, <<499, 501, 2, -1>>,
       <<505, 543, 2, -1>>, <<547, 563, 2, -1>>, <<572, 572, 1, -1>>,
       <<575, 576, 1, 10815>>, <<578, 578, 1, -1>>, <<583, 591, 2, -1>>,
       <<592, 592, 1, 10783>>, <<593, 593, 1, 10780>>, <<594, 594, 1, 10782>>,
       <<595, 595, 1, -210>>, <<596, 596, 1, -206>>, <<598, 599, 1, -205>>,
       <<601, 601, 1, -202>>, <<603, 603, 1, -203>>, <<604, 604, 1, 42319>>,
       <<608, 608, 1, -205>>, <<609, 609, 1, 42315>>, <<611, 611, 1, -207>>,
       <<613, 613, 1, 42280>>, <<614, 614, 1, 42308>>, <<616, 616, 1, -209>>,
       <<617, 617, 1, -211>>, <<618, 618, 1, 42308>>, <<619, 619, 1, 10743>>,
       <<620, 620, 1, 42305>>, <<623, 623, 1, -211>>, <<625, 625, 1, 10749>>,
       <<626, 626, 1, -213>>, <<629, 629, 1, -214>>, <<637, 637, 1, 10727>>,
       <<640, 640, 1, -218>>, <<642, 642, 1, 42307>>, <<643, 643, 1, -218>>,
       <<647, 647, 1, 42282>>, <<648, 648, 1, -218>>, <<649, 649, 1, -69>>,
       <<650, 651, 1, -217>>, <<652, 652, 1, -71>>, <<658, 658, 1, -219>>,
       <<669, 669, 1, 42261>>, <<670, 670, 1, 42258>>, <<837, 837, 1, 84>>,
       <<881, 883, 2, -1>>, <<887, 887, 1, -1>>, <<891, 893, 1, 130>>,
       <<940, 940, 1, -38>>, <<941, 943, 1, -37>>, <<945, 961, 1, -32>>,
       <<962, 962, 1, -31>>, <<963, 971, 1, -32>>, <<972, 972, 1, -64>>,
       <<973, 974, 1, -63>>, <<976, 976, 1, -62>>, <<977, 977, 1, -57>>,
       <<981, 981, 1, -47>>, <<982, 982, 1, -54>>, <<983, 983, 1, -8>>,
       <<985, 1007, 2, -1>>, <<1008, 1008, 1, -86>>, <<1009, 1009, 1, -80>>,
       <<1010, 1010, 1, 7>>, <<1011, 1011, 1, -116>>, <<1013, 1013, 1, -96>>,
       <<1016, 1016, 1, -1>>, <<1019, 1019, 1, -1>>, <<1072, 1103, 1, -32>>,
       <<1104, 1119, 1, -80>>, <<1121, 1153, 2, -1>>, <<1163, 1215, 2, -1>>,
       <<1218, 1230, 2, -1>>, <<1231, 1231, 1, -15>>, <<1233, 1327, 2, -1>>,
       <<1377, 1414, 1, -48>>, <<5112, 5117, 1, -8>>, <<7296, 7296, 1, -6254>>,
       <<7297, 7297, 1, -6253>>, <<7298, 7298, 1, -6244>>,
       <<7299, 7300, 1, -6242>>, <<7301, 7301, 1, -6243>>,
       <<7302, 7302, 1, -6236>>, <<7303, 7303, 1, -6181>>,
       <<7304, 7304, 1, 35266>>, <<7545, 7545, 1, 35332>>,
       <<7549, 7549, 1, 3814>>, <<7566, 7566, 1, 35384>>, <<7681, 7829, 2, -1>>,
       <<7835, 7835, 1, -59>>, <<7841, 7935, 2, -1>>, <<7936, 7943, 1, 8>>,
       <<7952, 7957, 1, 8>>, <<7968, 7975, 1, 8>>, <<7984, 7991, 1, 8>>,
       <<8000, 8005, 1, 8>>, <<8017, 8023, 2, 8>>, <<8032, 8039, 1, 8>>,
       <<8048, 8049, 1, 74>>, <<8050, 8053, 1, 86>>, <<8054, 8055, 1, 100>>,
       <<8056, 8057, 1, 128>>, <<8058, 8059, 1, 112>>, <<8060, 8061, 1, 126>>,
       <<8064, 8071, 1, 8>>, <<8080, 8087, 1, 8>>, <<8096, 8103, 1, 8>>,
       <<8112, 8113, 1, 8>>, <<8115, 8115, 1, 9>>, <<8126, 8126, 1, -7205>>,
       <<8131, 8131, 1, 9>>, <<8144, 8145, 1, 8>>, <<8160, 8161, 1, 8>>,
       <<8165, 8165, 1, 7>>, <<8179, 8179, 1, 9>>, <<8526, 8526, 1, -28>>,
       <<8560, 8575, 1, -16>>, <<8580, 8580, 1, -1>>, <<9424, 9449, 1, -26>>,
       <<11312, 11359, 1, -48>>, <<11361, 11361, 1, -1>>,
       <<11365, 11365, 1, -10795>>, <<11366, 11366, 1, -10792>>,
       <<11368, 11372, 2, -1>>, <<11379, 11379, 1, -1>>,
       <<11382, 11382, 1, -1>>, <<11393, 11491, 2, -1>>,
       <<11500, 11502, 2, -1>>, <<11507, 11507, 1, -1>>,
       <<11520, 11557, 1, -7264>>, <<11559, 11559, 1, -7264>>,
       <<11565, 11565, 1, -7264>>, <<42561, 42605, 2, -1>>,
       <<42625, 42651, 2, -1>>, <<42787, 42799, 2, -1>>,
       <<42803, 42863, 2, -1>>, <<42874, 42876, 2, -1>>,
       <<42879, 42887, 2, -1>>, <<42892, 42892, 1, -1>>,
       <<42897, 42899, 2, -1>>, <<42900, 42900, 1, 48>>,
       <<42903, 42921, 2, -1>>, <<42933, 42947, 2, -1>>,
       <<42952, 42954, 2, -1>>, <<42961, 42961, 1, -1>>,
       <<42967, 42969, 2, -1>>, <<42998, 42998, 1, -1>>,
       <<43859, 43859, 1, -928>>, <<43888, 43967, 1, -38864>>,
       <<65345, 65370, 1, -32>>, <<66600, 66639, 1, -40>>,
       <<66776, 66811, 1, -40>>, <<66967, 66977, 1, -39>>,
       <<66979, 66993, 1, -39>>, <<66995, 67001, 1, -39>>,
       <<67003, 67004, 1, -39>>, <<68800, 68850, 1, -64>>,
       <<71872, 71903, 1, -32>>, <<93792, 93823, 1, -32>>,
       <<125218, 125251, 1, -34>> >>

\* the characters whose c.title() is more than one character
TitleSpecial ==
    << <<223, <<83, 115>>>>, <<329, <<700, 78>>>>, <<496, <<74, 780>>>>,
       <<912, <<921, 776, 769>>>>, <<944, <<933, 776, 769>>>>,
       <<1415, <<1333, 1410>>>>, <<7830, <<72, 817>>>>, <<7831, <<84, 776>>>>,
       <<7832, <<87, 778>>>>, <<7833, <<89, 778>>>>, <<7834, <<65, 702>>>>,
       <<8016, <<933, 787>>>>, <<8018, <<933, 787, 768>>>>,
       <<8020, <<933, 787, 769>>>>, <<8022, <<933, 787, 834>>>>,
       <<8114, <<8122, 837>>>>, <<8116, <<902, 837>>>>, <<8118, <<913, 834>>>>,
       <<8119, <<913, 834, 837>>>>, <<8130, <<8138, 837>>>>,
       <<8132, <<905, 837>>>>, <<8134, <<919, 834>>>>,
       <<8135, <<919, 834, 837>>>>, <<8146, <<921, 776, 768>>>>,
       <<8147, <<921, 776, 769>>>>, <<8150, <<921, 834>>>>,
       <<8151, <<921, 776, 834>>>>, <<8162, <<933, 776, 768>>>>,
       <<8163, <<933, 776, 769>>>>, <<8164, <<929, 787>>>>,
       <<8166, <<933, 834>>>>, <<8167, <<933, 776, 834>>>>,
       <<8178, <<8186, 837>>>>, <<8180, <<911, 837>>>>, <<8182, <<937, 834>>>>,
       <<8183, <<937, 834, 837>>>>, <<64256, <<70, 102>>>>,
       <<64257, <<70, 105>>>>, <<64258, <<70, 108>>>>,
       <<64259, <<70, 102, 105>>>>, <<64260, <<70, 102, 108>>>>,
       <<64261, <<83, 116>>>>, <<64262, <<83, 116>>>>,
       <<64275, <<1348, 1398>>>>, <<64276, <<1348, 1381>>>>,
       <<64277, <<1348, 1387>>>>, <<64278, <<1358, 1398>>>>,
       <<64279, <<1348, 1389>>>> >>

\* c.lower() of one character, as <<first, last, step, shift>>
LowerShift ==
    << <<65, 90, 1, 32>>, <<192, 214, 1, 32>>, <<216, 222, 1, 32>>,
       <<256, 302, 2, 1>>, <<306, 310, 2, 1>>, <<313, 327, 2, 1>>,
       <<330, 374, 2, 1>>, <<376, 376, 1, -121>>, <<377, 381, 2, 1>>,
       <<385, 385, 1, 210>>, <<386, 388, 2, 1>>, <<390, 390, 1, 206>>,
       <<391, 391, 1, 1>>, <<393, 394, 1, 205>>, <<395, 395, 1, 1>>,
       <<398, 398, 1, 79>>, <<399, 399, 1, 202>>, <<400, 400, 1, 203>>,
       <<401, 401, 1, 1>>, <<403, 403, 1, 205>>, <<404, 404, 1, 207>>,
       <<406, 406, 1, 211>>, <<407, 407, 1, 209>>, <<408, 408, 1, 1>>,
       <<412, 412, 1, 211>>, <<413, 413, 1, 213>>, <<415, 415, 1, 214>>,
       <<416, 420, 2, 1>>, <<422, 422, 1, 218>>, <<423, 423, 1, 1>>,
       <<425, 425, 1, 218>>, <<428, 428, 1, 1>>, <<430, 430, 1, 218>>,
       <<431, 431, 1, 1>>, <<433, 434, 1, 217>>, <<435, 437, 2, 1>>,
       <<439, 439, 1, 219>>, <<440, 440, 1, 1>>, <<444, 444, 1, 1>>,
       <<452, 452, 1, 2>>, <<453, 453, 1, 1>>, <<455, 455, 1, 2>>,
       <<456, 456, 1, 1>>, <<458, 458, 1, 2>>, <<459, 475, 2, 1>>,
       <<478, 494, 2, 1>>, <<497, 497, 1, 2>>, <<498, 500, 2, 1>>,
       <<502, 502, 1, -97>>, <<503, 503, 1, -56>>, <<504, 542, 2, 1>>,
       <<544, 544, 1, -130>>, <<546, 562, 2, 1>>, <<570, 570, 1, 10795>>,
       <<571, 571, 1, 1>>, <<573, 573, 1, -163>>, <<574, 574, 1, 10792>>,
       <<577, 577, 1, 1>>, <<579, 579, 1, -195>>, <<580, 580, 1, 69>>,
       <<581, 581, 1, 71>>, <<582, 590, 2, 1>>, <<880, 882, 2, 1>>,
       <<886, 886, 1, 1>>, <<895, 895, 1, 116>>, <<902, 902, 1, 38>>,
       <<904, 906, 1, 37>>, <<908, 908, 1, 64>>, <<910, 911, 1, 63>>,
       <<913, 929, 1, 32>>, <<931, 939, 1, 32>>, <<975, 975, 1, 8>>,
       <<984, 1006, 2, 1>>, <<1012, 1012, 1, -60>>, <<1015, 1015, 1, 1>>,
       <<1017, 1017, 1, -7>>, <<1018, 1018, 1, 1>>, <<1021, 1023, 1, -130>>,
       <<1024, 1039, 1, 80>>, <<1040, 1071, 1, 32>>, <<1120, 1152, 2, 1>>,
       <<1162, 1214, 2, 1>>, <<1216, 1216, 1, 15>>, <<1217, 1229, 2, 1>>,
       <<1232, 1326, 2, 1>>, <<1329, 1366, 1, 48>>, <<4256, 4293, 1, 7264>>,
       <<4295, 4295, 1, 7264>>, <<4301, 4301, 1, 7264>>,
       <<5024, 5103, 1, 38864>>, <<5104, 5109, 1, 8>>, <<7312, 7354, 1, -3008>>,
       <<7357, 7359, 1, -3008>>, <<7680, 7828, 2, 1>>, <<7838, 7838, 1, -7615>>,
       <<7840, 7934, 2, 1>>, <<7944, 7951, 1, -8>>, <<7960, 7965, 1, -8>>,
       <<7976, 7983, 1, -8>>, <<7992, 7999, 1, -8>>, <<8008, 8013, 1, -8>>,
       <<8025, 8031, 2, -8>>, <<8040, 8047, 1, -8>>, <<8072, 8079, 1, -8>>,
       <<8088, 8095, 1, -8>>, <<8104, 8111, 1, -8>>, <<8120, 8121, 1, -8>>,
       <<8122, 8123, 1, -74>>, <<8124, 8124, 1, -9>>, <<8136, 8139, 1, -86>>,
       <<8140, 8140, 1, -9>>, <<8152, 8153, 1, -8>>, <<8154, 8155, 1, -100>>,
       <<8168, 8169, 1, -8>>, <<8170, 8171, 1, -112>>, <<8172, 8172, 1, -7>>,
       <<8184, 8185, 1, -128>>, <<8186, 8187, 1, -126>>, <<8188, 8188, 1, -9>>,
       <<8486, 8486, 1, -7517>>, <<8490, 8490, 1, -8383>>,
       <<8491, 8491, 1, -8262>>, <<8498, 8498, 1, 28>>, <<8544, 8559, 1, 16>>,
       <<8579, 8579, 1, 1>>, <<9398, 9423, 1, 26>>, <<11264, 11311, 1, 48>>,
       <<11360, 11360, 1, 1>>, <<11362, 11362, 1, -10743>>,
       <<11363, 11363, 1, -3814>>, <<11364, 11364, 1, -10727>>,
       <<11367, 11371, 2, 1>>, <<11373, 11373, 1, -10780>>,
       <<11374, 11374, 1, -10749>>, <<11375, 11375, 1, -10783>>,
       <<11376, 11376, 1, -10782>>, <<11378, 11378, 1, 1>>,
       <<11381, 11381, 1, 1>>, <<11390, 11391, 1, -10815>>,
       <<11392, 11490, 2, 1>>, <<11499, 11501, 2, 1>>, <<11506, 11506, 1, 1>>,
       <<42560, 42604, 2, 1>>, <<42624, 42650, 2, 1>>, <<42786, 42798, 2, 1>>,
       <<42802, 42862, 2, 1>>, <<42873, 42875, 2, 1>>,
       <<42877, 42877, 1, -35332>>, <<42878, 42886, 2, 1>>,
       <<42891, 42891, 1, 1>>, <<42893, 42893, 1, -42280>>,
       <<42896, 42898, 2, 1>>, <<42902, 42920, 2, 1>>,
       <<42922, 42922, 1, -42308>>, <<42923, 42923, 1, -42319>>,
       <<42924, 42924, 1, -42315>>, <<42925, 42925, 1, -42305>>,
       <<42926, 42926, 1, -42308>>, <<42928, 42928, 1, -42258>>,
       <<42929, 42929, 1, -42282>>, <<42930, 42930, 1, -42261>>,
       <<42931, 42931, 1, 928>>, <<42932, 42946, 2, 1>>,
       <<42948, 42948, 1, -48>>, <<42949, 42949, 1, -42307>>,
       <<42950, 42950, 1, -35384>>, <<42951, 42953, 2, 1>>,
       <<42960, 42960, 1, 1>>, <<42966, 42968, 2, 1>>, <<42997, 42997, 1, 1>>,
       <<65313, 65338, 1, 32>>, <<66560, 66599, 1, 40>>,
       <<66736, 66771, 1, 40>>, <<66928, 66938, 1, 39>>,
       <<66940, 66954, 1, 39>>, <<66956, 66962, 1, 39>>,
       <<66964, 66965, 1, 39>>, <<68736, 68786, 1, 64>>,
       <<71840, 71871, 1, 32>>, <<93760, 93791, 1, 32>>,
       <<125184, 125217, 1, 34>> >>

\* the character whose c.lower() is more than one character
LowerSpecial ==
    << <<304, <<105, 775>>>> >>

UpperLetters == Spanned(UpperRanges)
LowerLetters == Spanned(LowerRanges)
TitleLetters == Spanned(TitleRanges)
Cased == UpperLetters \cup LowerLetters \cup TitleLetters
CaseIgnorable == Spanned(CaseIgnorableRanges)

\* the characters str.strip() removes: U+0009 to U+000D, U+001C to U+0020,
\* U+0085, U+00A0, U+1680, U+2000 to U+200A, U+2028, U+2029, U+202F, U+205F
\* and U+3000
Whitespace == (9..13) \cup (28..32) \cup {133, 160, 5760} \cup (8192..8202)
                  \cup {8232, 8233, 8239, 8287, 12288}

\* Python's None, kept apart from every string (no character is -1)
None == << -1 >>

\* str.strip(): drop leading and trailing whitespace
RECURSIVE lstrip(_)
lstrip(s) == IF s # << >> /\ Head(s) \in Whitespace THEN lstrip(Tail(s)) ELSE s

RECURSIVE rstrip(_)
rstrip(s) == IF s # << >> /\ s[Len(s)] \in Whitespace
             THEN rstrip(SubSeq(s, 1, Len(s) - 1)) ELSE s

strip(s) == rstrip(lstrip(s))

\* str.isupper(): at least one upper-case character and no lower-case or
\* title-case one
isupper(s) == /\ \E k \in 1..Len(s) : s[k] \in UpperLetters
              /\ \A k \in 1..Len(s) : s[k] \notin LowerLetters \cup TitleLetters

\* truth value of a Python object used in `if x:` (None and "" are falsy)
Truthy(x) == x # None /\ x # << >>

\* nothing drawn yet
Nothing == [kind |-> "nothing"]

-----------------------------------------------------------------------------
(* get_ticker, App.py:30-37 *)

\* the fast-path test with the length bound one short
IsSymbolBadLen(nm) == isupper(nm) /\ 1 <= Len(nm) /\ Len(nm) <= 4
\* App.py:33  the test of the fast path
IsSymbol(nm) == isupper(nm) /\ 1 <= Len(nm) /\ Len(nm) <= 5

\* the pick taking the last candidate instead of the first
PickLast(resp) ==
    IF resp.kind = "raise" THEN None
    ELSE IF resp.quotes = << >> THEN None
    ELSE IF "symbol" \in DOMAIN resp.quotes[Len(resp.quotes)]
         THEN resp.quotes[Len(resp.quotes)].symbol
    ELSE None
\* App.py:35-37  yf.Search(name, max_results=1) and the pick of quotes[0].
\* resp.kind = "raise": the call throws; otherwise resp.quotes is the list of
\* candidates, each a record that may lack the 'symbol' key (KeyError).
PickFirst(resp) ==
    IF resp.kind = "raise" THEN None
    ELSE IF resp.quotes = << >> THEN None
    ELSE IF "symbol" \in DOMAIN resp.quotes[1] THEN resp.quotes[1].symbol
    ELSE None

\* get_ticker without the test of App.py:32
get_tickerNoEmptyCheck(nm, resp) ==
    LET n == strip(nm) IN
    IF IsSymbol(n) THEN [result |-> n, search |-> FALSE]
    ELSE [result |-> PickFirst(resp), search |-> TRUE]
\* the whole function: .result is the return value, .search whether
\* yf.Search was called
get_ticker(nm, resp) ==
    LET n == strip(nm) IN
    IF n = << >> THEN [result |-> None, search |-> FALSE]
    ELSE IF IsSymbol(n) THEN [result |-> n, search |-> FALSE]
    ELSE [result |-> PickFirst(resp), search |-> TRUE]

-----------------------------------------------------------------------------
(* Python values held in the provider's info dictionary *)

\* the int m * 10^e (e >= 0), True or False, a string, or None; a float is
\* Flt(x) below
PyInt(m, e) == [t |-> "int", m |-> m, e |-> e, s |-> << >>]
PyBool(b) == [t |-> "bool", m |-> IF b THEN 1 ELSE 0, e |-> 0, s |-> << >>]
Str(s)    == [t |-> "str", m |-> 0, e |-> 0, s |-> s]
PyNone    == [t |-> "none", m |-> 0, e |-> 0, s |-> << >>]

\* isinstance(v, (int, float)): bool is a subclass of int
IsNumber(v) == v.t \in {"int", "bool", "float"}

\* dict.get(key, default)
Get(d, key, default) == IF key \in DOMAIN d THEN d[key] ELSE default

TextNA == Text(<< "N", "/", "A" >>)

-----------------------------------------------------------------------------
(* Natural numbers beyond 32 bits (a float's significand has 53): sequences *)
(* of limbs in base 2^15, least significant first, no leading zero limb     *)
(* (zero is << >>).                                                         *)

Base == 32768
LimbBits == 15

RECURSIVE Pow2(_)
Pow2(k) == IF k = 0 THEN 1 ELSE 2 * Pow2(k - 1)

RECURSIVE IntBits(_)
IntBits(n) == IF n = 0 THEN 0 ELSE 1 + IntBits(n \div 2)

\* The operations on limbs split the range of limbs in halves, so that a
\* number of some thousand bits (10^4300, 2^1074 times a float) needs no
\* deep recursion.

\* the highest index in lo..hi of a limb of a that is not 0, or 0
RECURSIVE TopLimb(_, _, _)

TopOr(a, lo, hi, high) == IF high # 0 THEN high ELSE TopLimb(a, lo, hi)

TopLimb(a, lo, hi) ==
    IF lo = hi THEN (IF a[lo] # 0 THEN lo ELSE 0)
    ELSE TopOr(a, lo, (lo + hi) \div 2, TopLimb(a, ((lo + hi) \div 2) + 1, hi))

\* a without its leading zero limbs
BigNorm(a) == IF a = << >> \/ a[Len(a)] # 0 THEN a
              ELSE SubSeq(a, 1, TopLimb(a, 1, Len(a)))

RECURSIVE BigFromInt(_)
BigFromInt(n) == IF n = 0 THEN << >>
                 ELSE << n % Base >> \o BigFromInt(n \div Base)

RECURSIVE BigToInt(_)
BigToInt(a) == IF a = << >> THEN 0 ELSE a[1] + Base * BigToInt(Tail(a))

BigOne == << 1 >>

Limb(a, i) == IF i <= Len(a) THEN a[i] ELSE 0

BitLen(a) == IF a = << >> THEN 0
             ELSE LimbBits * (Len(a) - 1) + IntBits(a[Len(a)])

IsOdd(a) == a # << >> /\ a[1] % 2 = 1

\* n zero limbs below a
ShiftLimbs(a, n) == IF a = << >> THEN << >> ELSE [i \in 1..n |-> 0] \o a

\* a limb and the carry out of the sum s
Carried(s) == << s % Base, s \div Base >>

\* the limbs lo..hi of a + b + c, and the carry out as the last element
RECURSIVE AddRange(_, _, _, _, _)

AddJoin(a, b, mid, hi, low) ==
    SubSeq(low, 1, Len(low) - 1) \o AddRange(a, b, mid + 1, hi, low[Len(low)])

AddRange(a, b, lo, hi, c) ==
    IF lo = hi THEN Carried(Limb(a, lo) + Limb(b, lo) + c)
    ELSE AddJoin(a, b, (lo + hi) \div 2, hi, AddRange(a, b, lo, (lo + hi) \div 2, c))

BigAdd(a, b) ==
    IF a = << >> THEN b
    ELSE IF b = << >> THEN a
    ELSE BigNorm(AddRange(a, b, 1, IF Len(a) > Len(b) THEN Len(a) ELSE Len(b), 0))

\* a limb and the borrow out of the difference s
Borrowed(s) == IF s < 0 THEN << s + Base, 1 >> ELSE << s, 0 >>

\* the limbs lo..hi of a - b - br, and the borrow out as the last element
RECURSIVE SubRange(_, _, _, _, _)

SubJoin(a, b, mid, hi, low) ==
    SubSeq(low, 1, Len(low) - 1) \o SubRange(a, b, mid + 1, hi, low[Len(low)])

SubRange(a, b, lo, hi, br) ==
    IF lo = hi THEN Borrowed(a[lo] - Limb(b, lo) - br)
    ELSE SubJoin(a, b, (lo + hi) \div 2, hi, SubRange(a, b, lo, (lo + hi) \div 2, br))

\* a - b for a >= b
BigSub(a, b) ==
    IF b = << >> THEN a
    ELSE BigNorm(SubSeq(SubRange(a, b, 1, Len(a), 0), 1, Len(a)))

\* the limbs lo..hi of a against those of b, from the top
RECURSIVE CmpRange(_, _, _, _)

CmpOr(a, b, lo, hi, high) == IF high # 0 THEN high ELSE CmpRange(a, b, lo, hi)

CmpRange(a, b, lo, hi) ==
    IF lo = hi THEN (IF a[lo] = b[lo] THEN 0 ELSE IF a[lo] > b[lo] THEN 1 ELSE -1)
    ELSE CmpOr(a, b, lo, (lo + hi) \div 2, CmpRange(a, b, ((lo + hi) \div 2) + 1, hi))

\* -1, 0 or 1 as a < b, a = b or a > b
BigCmp(a, b) ==
    IF Len(a) # Len(b) THEN (IF Len(a) > Len(b) THEN 1 ELSE -1)
    ELSE IF a = << >> THEN 0
    ELSE CmpRange(a, b, 1, Len(a))

\* the limbs lo..hi of a * k + c, and the carry out as the last element
RECURSIVE MulSmallRange(_, _, _, _, _)

MulSmallJoin(a, k, mid, hi, low) ==
    SubSeq(low, 1, Len(low) - 1) \o MulSmallRange(a, k, mid + 1, hi, low[Len(low)])

MulSmallRange(a, k, lo, hi, c) ==
    IF lo = hi THEN Carried(a[lo] * k + c)
    ELSE MulSmallJoin(a, k, (lo + hi) \div 2, hi,
                      MulSmallRange(a, k, lo, (lo + hi) \div 2, c))

\* a * k for 0 <= k < Base
BigMulSmall(a, k) == IF k = 0 \/ a = << >> THEN << >>
                     ELSE BigNorm(MulSmallRange(a, k, 1, Len(a), 0))

\* a times the limbs lo..hi of b
RECURSIVE MulRange(_, _, _, _)
MulRange(a, b, lo, hi) ==
    IF lo = hi THEN BigMulSmall(a, b[lo])
    ELSE BigAdd(MulRange(a, b, lo, (lo + hi) \div 2),
                ShiftLimbs(MulRange(a, b, ((lo + hi) \div 2) + 1, hi),
                           ((lo + hi) \div 2) + 1 - lo))

BigMul(a, b) == IF a = << >> \/ b = << >> THEN << >> ELSE MulRange(a, b, 1, Len(b))

\* a limb of the quotient of cur by k, and the remainder
Divided(cur, k) == << cur \div k, cur % k >>

\* the division by k of the limbs hi down to lo of a behind the remainder r:
\* the limbs hi down to lo of the quotient, and the remainder left as the
\* last element
RECURSIVE DivSmallRange(_, _, _, _, _)

DivSmallJoin(a, k, lo, mid, high) ==
    SubSeq(high, 1, Len(high) - 1) \o DivSmallRange(a, k, lo, mid, high[Len(high)])

DivSmallRange(a, k, lo, hi, r) ==
    IF lo = hi THEN Divided(r * Base + a[lo], k)
    ELSE DivSmallJoin(a, k, lo, (lo + hi) \div 2,
                      DivSmallRange(a, k, ((lo + hi) \div 2) + 1, hi, r))

\* the first n elements of s, last first
Reversed(s, n) == [i \in 1..n |-> s[n + 1 - i]]

\* a \div k for 0 < k < Base
BigDivSmall(a, k) ==
    IF a = << >> THEN << >>
    ELSE BigNorm(Reversed(DivSmallRange(a, k, 1, Len(a), 0), Len(a)))

\* a * 2^k and a \div 2^k
Shl(a, k) == ShiftLimbs(BigMulSmall(a, Pow2(k % LimbBits)), k \div LimbBits)

Shr(a, k) == IF k \div LimbBits >= Len(a) THEN << >>
             ELSE BigDivSmall(SubSeq(a, (k \div LimbBits) + 1, Len(a)),
                              Pow2(k % LimbBits))

BigSquare(a) == BigMul(a, a)

RECURSIVE BigPow10(_)
BigPow10(k) == IF k = 0 THEN BigOne
               ELSE IF k % 2 = 1 THEN BigMulSmall(BigPow10(k - 1), 10)
               ELSE BigSquare(BigPow10(k \div 2))

\* one digit of a long division: r \div d for r < d * Base, where the top
\* limb of d is at least Base / 2; the estimate from the leading limbs is
\* then at most 2 too large
Estimate(r, d) ==
    LET top == Limb(r, Len(d) + 1) * Base + r[Len(d)]
    IN  IF top \div d[Len(d)] >= Base THEN Base - 1 ELSE top \div d[Len(d)]

Settle(r, d, est) ==
    IF BigCmp(BigMulSmall(d, est), r) <= 0 THEN est
    ELSE IF BigCmp(BigMulSmall(d, est - 1), r) <= 0 THEN est - 1
    ELSE est - 2

QuotDigit(r, d) == IF BigCmp(r, d) < 0 THEN 0 ELSE Settle(r, d, Estimate(r, d))

\* long division of the limbs n[1..i] behind the running remainder r: the
\* next limb joins the remainder (cur), gives one digit qd of the quotient,
\* and the rest follows
RECURSIVE LongDiv(_, _, _, _)

LongJoin(rest, qd) == [q |-> rest.q \o << qd >>, r |-> rest.r]

LongNext(n, d, i, cur, qd) ==
    LongJoin(LongDiv(n, d, i - 1, BigSub(cur, BigMulSmall(d, qd))), qd)

LongStep(n, d, i, cur) == LongNext(n, d, i, cur, QuotDigit(cur, d))

LongDiv(n, d, i, r) ==
    IF i = 0 THEN [q |-> << >>, r |-> r]
    ELSE LongStep(n, d, i, BigNorm(<< n[i] >> \o r))

\* quotient and remainder of n by d > 0 (both shifted first so that the top
\* limb of the divisor is at least Base / 2)
NormShift(d) == LimbBits - IntBits(d[Len(d)])

DivOut(out, sh) == [q |-> BigNorm(out.q), r |-> Shr(out.r, sh)]

\* the limbs of n above the first Len(n) - Len(d) + 1 are less than d: the
\* division starts with them as the remainder
DivShifted(n, d, sh) ==
    IF Len(n) < Len(d) THEN [q |-> << >>, r |-> Shr(n, sh)]
    ELSE DivOut(LongDiv(n, d, Len(n) - Len(d) + 1,
                        BigNorm(SubSeq(n, Len(n) - Len(d) + 2, Len(n)))), sh)

BigDivMod(n, d) == DivShifted(Shl(n, NormShift(d)), Shl(d, NormShift(d)), NormShift(d))

-----------------------------------------------------------------------------
(* Floats (IEEE 754 binary64), as the interpreter and numpy compute them.   *)
(* A finite float is (-1)^neg * sig * 2^exp with sig < 2^53 and exp >=      *)
(* -1074, kept with sig odd (or zero) so that equal floats are equal        *)
(* records; cls tells it from an infinity and from nan.  Every operation is *)
(* the exact result rounded to 53 significant bits (fewer below 2^-1022),   *)
(* ties to even; a result of 2^1024 or more is an infinity.                 *)

MantBits == 53

\* the exponent of the last bit of the smallest float, and the power of two
\* no finite float reaches
MinExp == -1074
MaxExp == 1024

Inf(neg) == [cls |-> "inf", neg |-> neg, sig |-> << >>, exp |-> 0]
NaN == [cls |-> "nan", neg |-> FALSE, sig |-> << >>, exp |-> 0]

\* an exception raised in place of a value: whatever is asked of the value
\* (its type t, the kind of a text, the class of a float) answers "raise"
Raised(exc) == [t |-> "raise", kind |-> "raise", cls |-> "raise", exc |-> exc]

\* the number of zero bits at the end of n > 0
RECURSIVE TrailingZeros(_)
TrailingZeros(n) == IF n % 2 = 1 THEN 0 ELSE 1 + TrailingZeros(n \div 2)

\* the lowest index of a limb of a that is not 0 (a is not zero)
RECURSIVE LowLimb(_, _, _)

LowOr(a, lo, hi, low) == IF low # 0 THEN low ELSE LowLimb(a, lo, hi)

LowLimb(a, lo, hi) ==
    IF lo = hi THEN (IF a[lo] # 0 THEN lo ELSE 0)
    ELSE LowOr(a, ((lo + hi) \div 2) + 1, hi, LowLimb(a, lo, (lo + hi) \div 2))

\* the number of zero bits at the end of a # 0
LowBit(a) == LimbBits * (LowLimb(a, 1, Len(a)) - 1)
             + TrailingZeros(a[LowLimb(a, 1, Len(a))])

Fin(neg, sig, exp) == [cls |-> "fin", neg |-> neg, sig |-> sig, exp |-> exp]

\* the float of sig * 2^exp with sig made odd
Canon(neg, sig, exp) ==
    IF sig = << >> THEN Fin(neg, << >>, 0)
    ELSE IF sig[1] % 2 = 1 THEN Fin(neg, sig, exp)
    ELSE IF sig[1] # 0
    THEN Fin(neg, BigDivSmall(sig, Pow2(TrailingZeros(sig[1]))),
             exp + TrailingZeros(sig[1]))
    ELSE Fin(neg, Shr(sig, LowBit(sig)), exp + LowBit(sig))

\* a rounded result: an infinity when it has reached 2^1024
Ranged(f) == IF f.sig # << >> /\ BitLen(f.sig) + f.exp > MaxExp THEN Inf(f.neg) ELSE f

Finite(neg, sig, exp) == Ranged(Canon(neg, sig, exp))

\* a quotient q with remainder r of a division by d rounds up: r is more
\* than half of d, or exactly half and q is odd
RoundsUp(q, r, d) ==
    LET c == BigCmp(Shl(r, 1), d)
    IN  c > 0 \/ (c = 0 /\ IsOdd(q))

RoundQuot(neg, qr, d, x) ==
    Finite(neg, IF RoundsUp(qr.q, qr.r, d) THEN BigAdd(qr.q, BigOne) ELSE qr.q, x)

RoundDiv(neg, n, d, x) == RoundQuot(neg, BigDivMod(n, d), d, x)

\* n / d has reached 2^53: one more halving
TooBig(n, d) == BigCmp(n, Shl(d, MantBits)) >= 0

RoundAligned(neg, n, d, x) ==
    RoundDiv(neg, n, IF TooBig(n, d) THEN Shl(d, 1) ELSE d,
             IF TooBig(n, d) THEN x + 1 ELSE x)

\* n / d * 2^x with n or d shifted by s bits
RoundShifted(neg, n, d, x, s) ==
    RoundAligned(neg, IF s > 0 THEN Shl(n, s) ELSE n,
                 IF s < 0 THEN Shl(d, -s) ELSE d, x - s)

\* the shift that gives the quotient 53 or 54 bits, or the smaller one that
\* keeps the last bit at 2^MinExp (a subnormal result has fewer bits)
ShiftFor(n, d, x) ==
    IF MantBits - (BitLen(n) - BitLen(d)) <= x - MinExp
    THEN MantBits - (BitLen(n) - BitLen(d))
    ELSE x - MinExp

\* the float nearest to (-1)^neg * (n / d) * 2^x (an exact result needs no
\* rounding)
RoundToFloat(neg, n, d, x) ==
    IF n = << >> THEN Canon(neg, << >>, 0)
    ELSE IF x >= MinExp /\ d = BigOne /\ BitLen(n) <= MantBits THEN Finite(neg, n, x)
    ELSE IF x >= MinExp /\ Len(n) = 1 /\ Len(d) = 1 /\ n[1] % d[1] = 0
    THEN Finite(neg, << n[1] \div d[1] >>, x)
    ELSE RoundShifted(neg, n, d, x, ShiftFor(n, d, x))

\* the float a decimal literal m * 10^e denotes (an int m below 2^53 is
\* exact; a literal beyond the range is an infinity)
Float(m, e) ==
    RoundToFloat(m < 0,
                 BigMul(BigFromInt(IF m < 0 THEN -m ELSE m),
                        BigPow10(IF e > 0 THEN e ELSE 0)),
                 BigPow10(IF e < 0 THEN -e ELSE 0), 0)

\* the float of an integer k from -2^31 to 2^31, which is exact
Whole(k) == Canon(k < 0, BigFromInt(IF k < 0 THEN -k ELSE k), 0)

\* the float 10^k for k up to 22, which is exact
TenTo(k) == Canon(FALSE, BigPow10(k), 0)

IsNan(a) == a.cls = "nan"
IsInf(a) == a.cls = "inf"
IsZero(a) == a.cls = "fin" /\ a.sig = << >>

Zero(neg) == Canon(neg, << >>, 0)

Negated(a) == IF IsNan(a) THEN a ELSE [a EXCEPT !.neg = ~a.neg]

\* a * b: nan with a nan operand and for infinity times zero
FloatMul(a, b) ==
    IF IsNan(a) \/ IsNan(b) THEN NaN
    ELSE IF IsInf(a) \/ IsInf(b)
    THEN (IF IsZero(a) \/ IsZero(b) THEN NaN ELSE Inf(a.neg # b.neg))
    ELSE RoundToFloat(a.neg # b.neg, BigMul(a.sig, b.sig), BigOne, a.exp + b.exp)

\* a / b as IEEE 754 and numpy have it (no exception): nan with a nan
\* operand, for 0 / 0 and for infinity / infinity, an infinity for x / 0
FloatDiv(a, b) ==
    IF IsNan(a) \/ IsNan(b) THEN NaN
    ELSE IF IsInf(a) THEN (IF IsInf(b) THEN NaN ELSE Inf(a.neg # b.neg))
    ELSE IF IsInf(b) THEN Zero(a.neg # b.neg)
    ELSE IF IsZero(b) THEN (IF IsZero(a) THEN NaN ELSE Inf(a.neg # b.neg))
    ELSE RoundToFloat(a.neg # b.neg, a.sig, b.sig, a.exp - b.exp)

\* the significand of a when the exponent is lowered to e
SigAt(a, e) == Shl(a.sig, a.exp - e)

LowExp(a, b) == IF a.exp < b.exp THEN a.exp ELSE b.exp

\* |a| against |b| for finite a and b: -1, 0 or 1
MagCmp(a, b) ==
    IF IsZero(a) \/ IsZero(b)
    THEN (IF IsZero(a) /\ IsZero(b) THEN 0 ELSE IF IsZero(a) THEN -1 ELSE 1)
    ELSE BigCmp(SigAt(a, LowExp(a, b)), SigAt(b, LowExp(a, b)))

\* a >= b for finite a and b
FiniteGe(a, b) ==
    IF IsZero(a) /\ IsZero(b) THEN TRUE
    ELSE IF a.neg # b.neg THEN b.neg
    ELSE IF a.neg THEN MagCmp(b, a) >= 0 ELSE MagCmp(a, b) >= 0

\* a >= b: false with a nan operand
FloatGe(a, b) ==
    IF IsNan(a) \/ IsNan(b) THEN FALSE
    ELSE IF IsInf(a) THEN (~a.neg \/ (IsInf(b) /\ b.neg))
    ELSE IF IsInf(b) THEN b.neg
    ELSE FiniteGe(a, b)

\* (-1)^an * x - (-1)^bn * y for naturals x and y, times 2^e
SubAligned(an, bn, x, y, e) ==
    RoundToFloat(IF an # bn THEN an
                 ELSE IF BigCmp(x, y) = 0 THEN FALSE
                 ELSE IF BigCmp(x, y) > 0 THEN an ELSE ~an,
                 IF an # bn THEN BigAdd(x, y)
                 ELSE IF BigCmp(x, y) >= 0 THEN BigSub(x, y) ELSE BigSub(y, x),
                 BigOne, e)

\* a - b: nan with a nan operand and for the difference of equal infinities
FloatSub(a, b) ==
    IF IsNan(a) \/ IsNan(b) THEN NaN
    ELSE IF IsInf(a) THEN (IF IsInf(b) /\ a.neg = b.neg THEN NaN ELSE a)
    ELSE IF IsInf(b) THEN Negated(b)
    ELSE IF IsZero(a) /\ IsZero(b) THEN Zero(a.neg /\ ~b.neg)
    ELSE IF IsZero(b) THEN a
    ELSE IF IsZero(a) THEN Negated(b)
    ELSE SubAligned(a.neg, b.neg, SigAt(a, LowExp(a, b)), SigAt(b, LowExp(a, b)),
                    LowExp(a, b))

\* a + b
FloatAdd(a, b) == FloatSub(a, Negated(b))

\* n / 2^s rounded to an integer, ties to even, q being n \div 2^s
UnitsRounded(n, q, s) ==
    IF RoundsUp(q, BigSub(n, Shl(q, s)), Shl(BigOne, s)) THEN BigAdd(q, BigOne) ELSE q

UnitsOf(n, e) == IF e >= 0 THEN Shl(n, e) ELSE UnitsRounded(n, Shr(n, -e), -e)

\* |a| * 10^k of a finite a, rounded to an integer (in limbs), ties of the
\* float's exact value to even: what round(a, k) and the 'f' format with k
\* decimals keep
Units(a, k) == UnitsOf(BigMul(a.sig, BigPow10(k)), a.exp)

-----------------------------------------------------------------------------
(* format_number and the insider estimate, App.py:39-44 and 139 *)

\* a float held as a Python value
Flt(x) == [t |-> "float", x |-> x]

\* |n| of an int (or bool), in limbs
IntMag(v) == BigMul(BigFromInt(IF v.m < 0 THEN -v.m ELSE v.m), BigPow10(v.e))

\* the int m * 10^e is beyond every finite float without a look at its
\* digits: 10^e is above 2^(3e)
Huge(v) == v.m # 0 /\ 3 * v.e >= MaxExp

\* an int rounded to the nearest float, OverflowError when that is beyond
\* the finite floats
FloatOfInt(x) == IF IsInf(x) THEN Raised("OverflowError") ELSE x

\* the float operand a number v gives to an operation with a float
AsFloat(v) == IF v.t = "float" THEN v.x
              ELSE IF Huge(v) THEN Raised("OverflowError")
              ELSE FloatOfInt(Float(v.m, v.e))

\* App.py:41-43  the literals 1e12, 1e9 and 1e6
E12 == TenTo(12)
E9  == TenTo(9)
E6  == TenTo(6)

\* App.py:139  the literal 0.000045
InsiderRate == Float(45, -6)

\* an int v >= x for a finite float x: the comparison is exact, the int is
\* not converted
IntGe(v, x) ==
    IF (v.m < 0) # x.neg THEN x.neg \/ (v.m = 0 /\ IsZero(x))
    ELSE IF Huge(v) THEN v.m > 0
    ELSE IF x.neg
         THEN BigCmp(Shl(x.sig, IF x.exp > 0 THEN x.exp ELSE 0),
                     Shl(IntMag(v), IF x.exp < 0 THEN -x.exp ELSE 0)) >= 0
         ELSE BigCmp(Shl(IntMag(v), IF x.exp < 0 THEN -x.exp ELSE 0),
                     Shl(x.sig, IF x.exp > 0 THEN x.exp ELSE 0)) >= 0

\* num >= x for a number num and a finite float x
NumGe(num, x) == IF num.t = "float" THEN FloatGe(num.x, x) ELSE IntGe(num, x)

\* f"{x:.kf}": the sign and x * 10^k rounded to an integer (in limbs); "inf"
\* with its sign and "nan" otherwise
Fixed(x, k) ==
    IF x.cls = "fin" THEN [cls |-> "fin", neg |-> x.neg, n |-> Units(x, k)]
    ELSE [cls |-> x.cls, neg |-> x.neg, n |-> << >>]

\* the texts of format_number:
\*   "N/A";
\*   f"{x:.2f}" followed by unit;
\*   str(n) of an int, h being |n| (in limbs);
\*   str(y) of a float, the shortest text that reads back as y
NAText == [kind |-> "N/A"]
FixedText(unit, x) == [kind |-> "fixed", unit |-> unit, f |-> Fixed(x, 2)]
DigitsText(neg, h) == [kind |-> "int", neg |-> neg, h |-> h]
ReprText(y) == [kind |-> "repr", y |-> y]

\* sys.get_int_max_str_digits(): str() of an int of more decimal digits
\* raises ValueError
MaxStrDigits == 4300

\* h has more than MaxStrDigits digits (10^k is above 2^(3k))
TooLong(h) ==
    IF Len(h) * LimbBits <= 3 * MaxStrDigits THEN FALSE
    ELSE BigCmp(h, BigPow10(MaxStrDigits)) >= 0

DigitsOrRaise(neg, h) == IF TooLong(h) THEN Raised("ValueError") ELSE DigitsText(neg, h)

\* str(v) of an int, as f"{v}" has it too
IntText(v) == DigitsOrRaise(v.m < 0, IntMag(v))

\* round(x, 2) of a float: the float nearest to x rounded to two decimals;
\* an infinity and nan round to themselves
Round2(x) == IF x.cls # "fin" THEN x
             ELSE RoundToFloat(x.neg, Units(x, 2), BigFromInt(100), 0)

\* App.py:44  str(round(num, 2)): round() leaves an int (or bool) an int
Rounded(num) == IF num.t = "float" THEN ReprText(Round2(num.x)) ELSE IntText(num)

\* App.py:41-43  the thresholds, the largest first, each with its unit
Scales == << [unit |-> "T", by |-> E12], [unit |-> "B", by |-> E9],
             [unit |-> "M", by |-> E6] >>

\* the first threshold that num reaches, 0 when it reaches none
ScaleOf(num) ==
    IF \A k \in DOMAIN Scales : ~NumGe(num, Scales[k].by) THEN 0
    ELSE CHOOSE k \in DOMAIN Scales :
             /\ NumGe(num, Scales[k].by)
             /\ \A j \in 1..(k - 1) : ~NumGe(num, Scales[j].by)

\* App.py:41-43  f"{num/by:.2f}" and the unit; an int too large for a float
\* raises OverflowError in the division
Scaled(scale, x) ==
    IF x.cls = "raise" THEN x ELSE FixedText(scale.unit, FloatDiv(x, scale.by))

Formatted(num, k) == IF k = 0 THEN Rounded(num) ELSE Scaled(Scales[k], AsFloat(num))

\* format_number, App.py:39-44: a text, or the exception raised
format_number(num) == IF ~IsNumber(num) THEN NAText ELSE Formatted(num, ScaleOf(num))

\* v * y for a number v and a float y; an int too large for a float raises
\* OverflowError
Times(x, y) == IF x.cls = "raise" THEN x ELSE Flt(FloatMul(x, y))

\* App.py:139  marketCap * 0.000045 when marketCap is a number, else 0
InsiderVal(info) ==
    IF IsNumber(Get(info, "marketCap", PyNone))
    THEN Times(AsFloat(Get(info, "marketCap", PyInt(0, 0))), InsiderRate)
    ELSE PyInt(0, 0)

-----------------------------------------------------------------------------
(* get_sentiment_html, App.py:46-50 *)

\* the shift of c in a table of <<first, last, step, shift>>
ShiftOf(rs, c) == rs[CHOOSE k \in DOMAIN rs : InSpan(rs[k], c)][4]

\* the characters of a table of <<character, text>>, and the text of c in it
Keys(ps) == { ps[k][1] : k \in DOMAIN ps }
TextOf(ps, c) == ps[CHOOSE k \in DOMAIN ps : ps[k][1] = c][2]

TitleOf == [c \in Spanned(TitleShift) |-> << c + ShiftOf(TitleShift, c) >>]
LowerOf == [c \in Spanned(LowerShift) |-> << c + ShiftOf(LowerShift, c) >>]

\* c.title() and c.lower() of one character: a text of one to three
\* characters
ToUpper(c) == IF c \in DOMAIN TitleOf THEN TitleOf[c]
              ELSE IF c \in Keys(TitleSpecial) THEN TextOf(TitleSpecial, c)
              ELSE << c >>
ToLower(c) == IF c \in DOMAIN LowerOf THEN LowerOf[c]
              ELSE IF c \in Keys(LowerSpecial) THEN TextOf(LowerSpecial, c)
              ELSE << c >>
IsLetter(c) == c \in Cased

\* the capital sigma s[i] ends a word: a cased character comes before it
\* and none after it, case-ignorable characters looked through
FinalSigma(s, i) ==
    LET before == { j \in 1..(i - 1) : s[j] \notin CaseIgnorable }
        after  == { j \in (i + 1)..Len(s) : s[j] \notin CaseIgnorable }
    IN  /\ before # {} /\ s[SetMax(before)] \in Cased
        /\ after = {} \/ s[SetMin(after)] \notin Cased

CapitalSigma == 931

\* s[i] lowered where it stands
LowerAt(s, i) == IF s[i] = CapitalSigma
                 THEN << IF FinalSigma(s, i) THEN 962 ELSE 963 >>
                 ELSE ToLower(s[i])

\* str.replace('_', ' ')
ReplaceUnderscore(s) == [k \in DOMAIN s |-> IF s[k] = Ord("_") THEN Ord(" ") ELSE s[k]]

\* str.title(): a character that follows a cased one is lowered, any other
\* is title-cased
RECURSIVE TitleFrom(_, _)
TitleFrom(s, i) ==
    IF i > Len(s) THEN << >>
    ELSE (IF i > 1 /\ IsLetter(s[i - 1]) THEN LowerAt(s, i) ELSE ToUpper(s[i]))
         \o TitleFrom(s, i + 1)

Title(s) == TitleFrom(s, 1)

\* sub in s
Contains(s, sub) ==
    \E i \in 1..(Len(s) - Len(sub) + 1) : SubSeq(s, i, i + Len(sub) - 1) = sub

\* App.py:49  the words looked for in the badge
BuyWord == Text(<< "B", "u", "y" >>)
SellWord == Text(<< "S", "e", "l", "l" >>)

\* the badge as [raised, cls, text]; .replace on a value that is not a
\* string raises AttributeError
get_sentiment_html(info) ==
    LET v == Get(info, "recommendationKey", Str(TextNA)) IN
    IF v.t # "str" THEN [raised |-> TRUE, cls |-> "", text |-> << >>]
    ELSE LET rec == Title(ReplaceUnderscore(v.s)) IN
         IF rec = TextNA THEN [raised |-> FALSE, cls |-> "hold-bg", text |-> TextNA]
         ELSE [raised |-> FALSE,
               cls |-> IF Contains(rec, BuyWord) THEN "buy-bg"
                       ELSE IF Contains(rec, SellWord) THEN "sell-bg"
                       ELSE "hold-bg",
               text |-> rec]

-----------------------------------------------------------------------------
(* Frames of closing prices, App.py:92-97 *)

\* a cell is a float; a missing cell is nan

\* pandas and numpy arithmetic on cells: that of the floats, nan and the
\* infinities included, and no exception (x / 0 is an infinity or nan)
CellDiv(a, b) == FloatDiv(a, b)
CellTimes(a, k) == FloatMul(a, Whole(k))
CellMinus(a, k) == FloatSub(a, Whole(k))

EmptyFrame == [index |-> {}, cols |-> << >>]

Columns(frame) == DOMAIN frame.cols

\* frame.loc[start:]  (label slice on the date index, start included)
LocFrom(frame, start) ==
    LET idx == { d \in frame.index : d >= start } IN
    [index |-> idx,
     cols  |-> [c \in Columns(frame) |-> [d \in idx |-> frame.cols[c][d]]]]

\* frame.ffill(): a missing cell takes the last earlier value of its column
FfillCell(col, idx, d) ==
    LET seen == { e \in idx : e <= d /\ col[e] # NaN } IN
    IF seen = {} THEN NaN ELSE col[SetMax(seen)]

Ffill(frame) ==
    [index |-> frame.index,
     cols  |-> [c \in Columns(frame) |->
                  [d \in frame.index |-> FfillCell(frame.cols[c], frame.index, d)]]]

\* (frame / frame.iloc[0]) * 100
Normalize(frame) ==
    LET first == SetMin(frame.index) IN
    [index |-> frame.index,
     cols  |-> [c \in Columns(frame) |->
                  [d \in frame.index |->
                     CellTimes(CellDiv(frame.cols[c][d], frame.cols[c][first]), 100)]]]

\* the observations of the window S added up in date order
RECURSIVE CellSum(_, _)
CellSum(col, S) == IF S = {} THEN Whole(0)
                   ELSE LET d == SetMax(S) IN FloatAdd(CellSum(col, S \ {d}), col[d])

\* series.rolling(n).mean(): NaN until n valid observations fill the window
RollingMean(col, idx, n) ==
    [d \in idx |->
       LET win == { e \in idx : e <= d /\ Cardinality({ f \in idx : e < f /\ f <= d }) < n }
       IN  IF Cardinality(win) < n \/ \E e \in win : col[e] = NaN THEN NaN
           ELSE CellDiv(CellSum(col, win), Whole(n))]

\* App.py:87
period_map == [ l \in {"1mo", "3mo", "6mo", "1y", "2y", "5y"} |->
                  CASE l = "1mo" -> 30  [] l = "3mo" -> 90  [] l = "6mo" -> 180
                    [] l = "1y"  -> 365 [] l = "2y"  -> 730 [] l = "5y"  -> 1825 ]

\* App.py:92
Benchmark == Text(<< "^", "G", "S", "P", "C" >>)

-----------------------------------------------------------------------------
(* The provider's answers to yf.Search *)

Cand(sym) == [symbol |-> sym, shortname |-> Text(<< "x" >>)]
NoSymbolCand == [shortname |-> Text(<< "x" >>)]

SymA == Text(<< "A" >>)
SymB == Text(<< "B" >>)

Responses ==
    { [kind |-> "raise", quotes |-> << >>] } \cup
    { [kind |-> "ok", quotes |-> q] :
        q \in { << >>,
                << Cand(SymA) >>,
                << Cand(SymB) >>,
                << Cand(SymB), Cand(SymA) >>,
                << NoSymbolCand >>,
                << NoSymbolCand, Cand(SymA) >>,
                << Cand(<< >>) >> } }

NoResponse == [kind |-> "unasked", quotes |-> << >>]

-----------------------------------------------------------------------------
(* The state before the script has run *)

Fresh ==
    /\ name = << >> /\ response = NoResponse /\ ticker = None
    /\ searched = 0 /\ slot = 0 /\ inputs = << >> /\ outcomes = << >>
    /\ valid_tickers = << >> /\ infoCalls = << >> /\ calCalls = << >>
    /\ downloads = 0 /\ side_cards = << >> /\ days_back = 0
    /\ shown = Nothing /\ typed = "nothing" /\ failed = {}
    /\ raw_data = EmptyFrame /\ chart_data = EmptyFrame
    /\ norm_data = EmptyFrame
    /\ traces = {} /\ insights = << >>

-----------------------------------------------------------------------------
(* SpecResolve: get_ticker on its own, on every text up to MaxLen *)

Alphabet == { Ord("A"), Ord("b"), Ord(" "), Ord("7") }

RECURSIVE Texts(_)
Texts(n) == IF n = 0 THEN { << >> }
            ELSE Texts(n - 1) \cup
                 { Append(s, c) : s \in { t \in Texts(n - 1) : Len(t) = n - 1 },
                                  c \in Alphabet }

InitResolve ==
    /\ pc = "call"
    /\ name \in Texts(MaxLen)
    /\ response \in Responses
    /\ ticker = None
    /\ searched = 0 /\ slot = 0 /\ inputs = << >> /\ outcomes = << >>
    /\ valid_tickers = << >> /\ infoCalls = << >> /\ calCalls = << >>
    /\ downloads = 0 /\ side_cards = << >> /\ days_back = 0
    /\ shown = Nothing /\ typed = "nothing" /\ failed = {}
    /\ raw_data = EmptyFrame /\ chart_data = EmptyFrame
    /\ norm_data = EmptyFrame
    /\ traces = {} /\ insights = << >>

CallGetTicker ==
    /\ pc = "call"
    /\ LET r == get_ticker(name, response) IN
        /\ ticker' = r.result
        /\ searched' = IF r.search THEN searched + 1 ELSE searched
    /\ pc' = "return"
    /\ UNCHANGED << name, response, slot, inputs, outcomes, valid_tickers,
                    infoCalls, calCalls, downloads, side_cards, days_back,
                    shown, typed, failed, raw_data, chart_data, norm_data, traces,
                    insights >>

NextResolve == CallGetTicker

SpecResolve == InitResolve /\ [][NextResolve]_vars

-----------------------------------------------------------------------------
(* Claims about get_ticker *)

\* s without its surrounding whitespace, said without strip(): from the
\* first to the last character that is not whitespace
Trimmed(s) ==
    LET solid == { k \in 1..Len(s) : s[k] \notin Whitespace } IN
    IF solid = {} THEN << >> ELSE SubSeq(s, SetMin(solid), SetMax(solid))

EntirelyUpper(t) == /\ \E k \in 1..Len(t) : t[k] \in UpperLetters
                    /\ \A k \in 1..Len(t) : t[k] \notin LowerLetters \cup TitleLetters

FastPathText(s) == LET t == Trimmed(s) IN
                   EntirelyUpper(t) /\ Len(t) >= 1 /\ Len(t) <= 5

\* C1: a text that, trimmed, is entirely upper-case and 1 to 5 characters
\* long is returned trimmed and unchanged, and yf.Search is never called.
C1_FastPathReturnsInput ==
    (pc = "return" /\ FastPathText(name)) =>
        (ticker = Trimmed(name) /\ searched = 0)

\* a padded five-character upper-case text came back trimmed, unsearched
C1_Witness ==
    /\ pc = "return"
    /\ FastPathText(name)
    /\ Len(Trimmed(name)) = 5
    /\ Len(name) > 5
    /\ ticker = Trimmed(name)
    /\ searched = 0

\* the answer carries at least one candidate and the first has a symbol
FirstHasSymbol(resp) == /\ resp.kind = "ok"
                        /\ resp.quotes # << >>
                        /\ "symbol" \in DOMAIN resp.quotes[1]

\* C3: a text that is non-empty after trimming and is not on the fast path
\* is searched once; the result is the first candidate's symbol when there
\* is one, and None when the search is empty, throws or is malformed; the
\* call returns (no exception leaves get_ticker).
C3_SearchPathFirstOrNone ==
    /\ pc = "call" => ENABLED CallGetTicker
    /\ (pc = "return" /\ Trimmed(name) # << >> /\ ~FastPathText(name)) =>
          /\ searched = 1
          /\ FirstHasSymbol(response) => ticker = response.quotes[1].symbol
          /\ ~FirstHasSymbol(response) => ticker = None

\* two candidates came back and the first one's symbol was returned
C3_Witness ==
    /\ pc = "return"
    /\ Trimmed(name) # << >> /\ ~FastPathText(name)
    /\ searched = 1
    /\ Len(response.quotes) = 2
    /\ FirstHasSymbol(response)
    /\ ticker = response.quotes[1].symbol
    /\ ticker # response.quotes[2].symbol

-----------------------------------------------------------------------------
(* The provider, as far as one run of the script sees it *)

\* App.py:58  range(5)
NumInputs == 5

\* what the user may have typed in an input
InputNames == { << >>, Text(<< " ", " " >>), Text(<< "A" >>),
                Text(<< "a", "c", "m", "e" >>) }

\* what yf.Search may answer in a run
RunResponses ==
    { [kind |-> "raise", quotes |-> << >>],
      [kind |-> "ok", quotes |-> << >>],
      [kind |-> "ok", quotes |-> << Cand(SymA) >>],
      [kind |-> "ok", quotes |-> << Cand(SymB), Cand(SymA) >>] }

\* Ticker(t).info: the call raises, or returns a sparse dictionary (one of
\* them with a market cap that is an int beyond the floats)
TextBuy        == Text(<< "b", "u", "y" >>)
TextStrongSell == Text(<< "s", "t", "r", "o", "n", "g", "_", "s", "e", "l", "l" >>)
TextInfinity   == Text(<< "I", "n", "f", "i", "n", "i", "t", "y" >>)

InfoDicts ==
    { [forwardPE |-> Flt(Whole(15)), forwardEps |-> Flt(Whole(5)),
       recommendationKey |-> Str(TextBuy), marketCap |-> PyInt(3, 12)],
      [forwardEps |-> Flt(Whole(5)),
       recommendationKey |-> Str(TextStrongSell), marketCap |-> PyInt(1, 309)],
      [forwardPE |-> PyInt(0, 0), marketCap |-> PyInt(1234567, 0)],
      [forwardPE |-> Str(TextInfinity), recommendationKey |-> PyNone,
       marketCap |-> PyNone] }

InfoOutcomes == { [kind |-> "raise", info |-> << >>] } \cup
                { [kind |-> "ok", info |-> d] : d \in InfoDicts }

\* Ticker(t).calendar: the call raises, or returns None, or a dictionary
\* whose 'Earnings Date', if there, lists the dates as whole days from now
\* ((earn_date - datetime.now()).days)
CalendarOutcomes ==
    { [kind |-> "raise", dates |-> << >>],
      [kind |-> "none",  dates |-> << >>],
      [kind |-> "nokey", dates |-> << >>],
      [kind |-> "dict",  dates |-> << >>],
      [kind |-> "dict",  dates |-> << -1 >>],
      [kind |-> "dict",  dates |-> << 0, 90 >>] }

\* the days (numbered) on which some exchange traded, and the closes (a
\* first close of 0.0 among them)
Days == {1000, 2000}

Close(c, d) ==
    LET k == IF d = 1000 THEN 1 ELSE 2 IN
    IF c = SymA THEN << 10, 30 >>[k]
    ELSE IF c = SymB THEN << 0, 80 >>[k]
    ELSE << 100, 150 >>[k]

\* the positions of the timeline slider tried
Timelines == {"1mo", "5y"}

\* yf.download(tickers, period="max")['Close']: one column per distinct
\* ticker that the provider answers for, on the union of the days of all
\* columns; have[c] is the set of days c has a close on (none at all when
\* the download of c failed).  The keys of have are the columns returned.
Histories(tickers) ==
    LET syms == { tickers[k] : k \in DOMAIN tickers } \ {Benchmark} IN
    { have \in UNION { [ got \cup {Benchmark} -> SUBSET Days ] : got \in SUBSET syms } :
        have[Benchmark] \in { Days, {} } }

Frame(have) ==
    LET idx == UNION { have[c] : c \in DOMAIN have } IN
    [index |-> idx,
     cols  |-> [c \in DOMAIN have |->
                  [d \in idx |-> IF d \in have[c] THEN Whole(Close(c, d)) ELSE NaN]]]

-----------------------------------------------------------------------------
(* The script, App.py:55-171, one action per step *)

\* no call of get_ticker (no character is -2)
NotAsked == << -2 >>

Init == pc = "inputs" /\ Fresh

\* App.py:58-62  one turn of the input loop: read the text, resolve it when
\* it is truthy, keep the symbol when that is truthy
ReadInput ==
    /\ pc = "inputs"
    /\ slot < NumInputs
    /\ \E nm \in InputNames, resp \in RunResponses \cup {NoResponse} :
         LET asked == nm # << >>
             r     == get_ticker(nm, resp)
             kept  == asked /\ Truthy(r.result)
         IN  /\ (resp # NoResponse) <=> (asked /\ r.search)
             /\ kept => Len(valid_tickers) < MaxTickers
             /\ name' = nm
             /\ response' = resp
             /\ ticker' = IF asked THEN r.result ELSE ticker
             /\ searched' = IF asked /\ r.search THEN searched + 1 ELSE searched
             /\ valid_tickers' = IF kept THEN Append(valid_tickers, r.result)
                                  ELSE valid_tickers
             /\ inputs' = Append(inputs, nm)
             /\ outcomes' = Append(outcomes, IF asked THEN r.result ELSE NotAsked)
             /\ typed' = IF typed = "text" \/ \E k \in DOMAIN nm : nm[k] \notin Whitespace
                         THEN "text"
                         ELSE IF nm # << >> THEN "spaces" ELSE typed
    /\ slot' = slot + 1
    /\ UNCHANGED << pc, infoCalls, calCalls, downloads, side_cards, shown, failed,
                    days_back, raw_data, chart_data, norm_data, traces, insights >>

\* App.py:64  after the loop: the sidebar's fundamentals only if a symbol
\* was kept.  The loop's own variables are not read again and are dropped.
LeaveInputs ==
    /\ pc = "inputs"
    /\ slot = NumInputs
    /\ pc' = IF valid_tickers # << >> THEN "sidebar" ELSE "timeline"
    /\ name' = << >> /\ response' = NoResponse /\ ticker' = None
    /\ inputs' = << >> /\ outcomes' = << >>
    /\ UNCHANGED << searched, slot, valid_tickers, infoCalls, calCalls, downloads,
                    side_cards, shown, typed, failed, days_back, raw_data,
                    chart_data, norm_data, traces, insights >>

\* f"{v}" raises: v is an int too long for str()
Unprintable(v) == v.t = "int" /\ TooLong(IntMag(v))

\* App.py:68-81  the card of one ticker, from what Ticker(t).info gave; the
\* bare except turns an exception of any line into the caption
SidebarElement(t, out) ==
    IF out.kind = "raise" THEN [kind |-> "caption", t |-> t]
    ELSE LET badge == get_sentiment_html(out.info) IN
         IF badge.raised \/ Unprintable(Get(out.info, "forwardPE", Str(TextNA)))
         THEN [kind |-> "caption", t |-> t]
         ELSE [kind |-> "card", t |-> t,
               pe |-> Get(out.info, "forwardPE", Str(TextNA)),
               badge |-> badge, info |-> out.info]

\* App.py:67-81  one turn of the sidebar loop
SidebarCard ==
    /\ pc = "sidebar"
    /\ Len(side_cards) < Len(valid_tickers)
    /\ LET t == valid_tickers[Len(side_cards) + 1] IN
       \E out \in InfoOutcomes :
         LET el == SidebarElement(t, out) IN
         /\ infoCalls' = Append(infoCalls, t)
         /\ shown' = el
         /\ side_cards' = Append(side_cards, t)
         /\ pc' = IF Len(side_cards) + 1 = Len(valid_tickers) THEN "timeline"
                   ELSE "sidebar"
    /\ UNCHANGED << name, response, ticker, searched, slot, inputs, outcomes,
                    valid_tickers, calCalls, downloads, typed, failed, days_back,
                    raw_data, chart_data, norm_data, traces, insights >>

\* App.py:84-91  the timeline slider, then the right column only if a
\* symbol was kept (shown starts afresh with the right column)
PickTimeline ==
    /\ pc = "timeline"
    /\ \E period_label \in Timelines : days_back' = period_map[period_label]
    /\ pc' = IF valid_tickers # << >> THEN "download" ELSE "done"
    /\ shown' = Nothing
    /\ UNCHANGED << name, response, ticker, searched, slot, inputs, outcomes,
                    valid_tickers, infoCalls, calCalls, downloads, side_cards,
                    typed, failed, raw_data, chart_data, norm_data, traces,
                    insights >>

\* App.py:95-96  the window: from the last date minus days_back, filled
Slice(frame, days) == Ffill(LocFrom(frame, SetMax(frame.index) - days))

\* App.py:92-97  the batched download and the normalised frame; with no row
\* at all raw_data.index[-1] raises IndexError, which nothing catches.
\* (App.py:93 never applies: with "^GSPC" appended the result is a frame.)
Download ==
    /\ pc = "download"
    /\ \E have \in Histories(valid_tickers) :
         LET raw == Frame(have) IN
         /\ raw_data' = raw
         /\ IF raw.index = {}
            THEN /\ pc' = "crashed"
                 /\ UNCHANGED << chart_data, norm_data >>
            ELSE /\ pc' = "chart"
                 /\ chart_data' = Slice(raw, days_back)
                 /\ norm_data' = Normalize(Slice(raw, days_back))
    /\ downloads' = downloads + 1
    /\ UNCHANGED << name, response, ticker, searched, slot, inputs, outcomes,
                    valid_tickers, infoCalls, calCalls, side_cards, shown,
                    typed, failed, days_back, traces, insights >>

\* App.py:101-105  one trace per column of norm_data (y is norm_data[col],
\* not copied here)
ColumnTraces(norm) ==
    { [kind |-> IF c = Benchmark THEN "S&P 500" ELSE "asset", col |-> c,
       y |-> << >>] : c \in Columns(norm) }

\* App.py:109-113  a moving average of the only ticker, on the chart's scale
MovingAverage(kind, n, p, raw, idx, base) ==
    [kind |-> kind, col |-> p,
     y |-> [d \in idx |->
              CellTimes(CellDiv(RollingMean(raw.cols[p], raw.index, n)[d], base), 100)]]

MovingAverageTraces(p, raw, chart, days) ==
    { MovingAverage(ma.kind, ma.n, p, raw,
                    { d \in raw.index : d >= SetMax(raw.index) - days },
                    chart.cols[p][SetMin(chart.index)]) :
        ma \in { [kind |-> "50MA", n |-> 50], [kind |-> "200MA", n |-> 200] } }

\* App.py:100-116  the chart; raw_data[p] raises KeyError, uncaught, when the
\* only ticker has no column
Chart ==
    /\ pc = "chart"
    /\ IF Len(valid_tickers) = 1 /\ valid_tickers[1] \notin Columns(raw_data)
       THEN /\ pc' = "crashed"
            /\ traces' = ColumnTraces(norm_data)
       ELSE /\ pc' = "insights"
            /\ traces' = ColumnTraces(norm_data) \cup
                          (IF Len(valid_tickers) = 1
                           THEN MovingAverageTraces(valid_tickers[1], raw_data,
                                                    chart_data, days_back)
                           ELSE {})
    /\ UNCHANGED << name, response, ticker, searched, slot, inputs, outcomes,
                    valid_tickers, infoCalls, calCalls, downloads, side_cards,
                    shown, typed, failed, days_back, raw_data, chart_data,
                    norm_data, insights >>

\* App.py:125-128  price and return of t over the window, as the texts
\* f"{price:.2f}" and f"{ret:.1f}" ("nan" and "inf" among them: numpy
\* divides by 0.0 without an exception); chart_data[t] raises KeyError when
\* t has no column, which the except turns into st.error
PriceMetric(t, chart) ==
    IF t \notin Columns(chart) THEN [kind |-> "error"]
    ELSE LET first == chart.cols[t][SetMin(chart.index)]
             last  == chart.cols[t][SetMax(chart.index)]
         IN  [kind  |-> "metric",
              price |-> Fixed(last, 2),
              ret   |-> Fixed(CellTimes(CellMinus(CellDiv(last, first), 1), 100), 1)]

\* App.py:143-150  the earnings countdown; every failure leaves "N/A"
DaysText(cal) ==
    IF cal.kind \in {"raise", "none", "nokey"} THEN [kind |-> "N/A", n |-> 0]
    ELSE IF cal.dates = << >> THEN [kind |-> "N/A", n |-> 0]
    ELSE IF cal.dates[1] >= 0 THEN [kind |-> "Days", n |-> cal.dates[1]]
    ELSE [kind |-> "Passed", n |-> 0]

\* App.py:140  format_number(insider_val), or the exception of line 139
InsiderText(val) == IF val.t = "raise" THEN val ELSE format_number(val)

\* App.py:136-140  the market cap and the insider estimate as drawn, or the
\* exception that line 136, 139 or 140 raises
TextsOrRaise(m_cap, insider_text) ==
    IF m_cap.kind = "raise" THEN m_cap
    ELSE IF insider_text.kind = "raise" THEN insider_text
    ELSE [kind |-> "texts", m_cap |-> m_cap, insider_text |-> insider_text]

BoxTexts(info) ==
    TextsOrRaise(format_number(Get(info, "marketCap", PyNone)),
                 InsiderText(InsiderVal(info)))

\* the same, worked out once for the dictionaries of InfoDicts
KnownBoxTexts == [d \in InfoDicts |-> BoxTexts(d)]

BoxTextsOf(info) == IF info \in InfoDicts THEN KnownBoxTexts[info] ELSE BoxTexts(info)

\* the box with the texts and the countdown, or what an exception of
\* App.py:136-140 leaves
BoxOr(texts, cal, left) ==
    IF texts.kind = "raise" THEN left
    ELSE [kind |-> "box", m_cap |-> texts.m_cap,
          insider_text |-> texts.insider_text, days_text |-> DaysText(cal)]

\* the statistics box without the except of App.py:170 (kind "crash": an
\* exception that nothing catches, which ends the run)
StatBoxUncaught(out, cal) ==
    IF out.kind = "raise" THEN [kind |-> "crash"]
    ELSE BoxOr(BoxTextsOf(out.info), cal, [kind |-> "crash"])
\* App.py:131-171  the statistics box of t; an exception from Ticker(t).info
\* or from any line before the box is drawn leaves the caption instead of
\* the whole box (the calendar's own exceptions are caught at App.py:150)
StatBox(out, cal) ==
    IF out.kind = "raise" THEN [kind |-> "caption"]
    ELSE BoxOr(BoxTextsOf(out.info), cal, [kind |-> "caption"])

NoCalendar == [kind |-> "unasked", dates |-> << >>]

\* App.py:122-171  one turn of the insights loop; the calendar is read only
\* when line 145 is reached
Insight ==
    /\ pc = "insights"
    /\ Len(insights) < Len(valid_tickers)
    /\ LET t      == valid_tickers[Len(insights) + 1]
           metric == PriceMetric(t, chart_data)
       IN
       \E out \in InfoOutcomes, cal \in CalendarOutcomes \cup {NoCalendar} :
         LET box == StatBox(out, cal)
         IN  /\ (cal = NoCalendar) <=> (box.kind # "box")
             /\ infoCalls' = Append(infoCalls, t)
             /\ calCalls' = IF cal = NoCalendar THEN calCalls ELSE Append(calCalls, t)
             /\ shown' = [kind |-> "insight", t |-> t, metric |-> metric, box |-> box,
                          info_ok |-> out.kind # "raise", info |-> out.info]
             /\ insights' = Append(insights, t)
             /\ failed' = IF out.kind = "raise" THEN failed \cup {t} ELSE failed
             /\ pc' = IF box.kind = "crash" THEN "crashed"
                       ELSE IF Len(insights) + 1 = Len(valid_tickers) THEN "done"
                       ELSE "insights"
    /\ UNCHANGED << name, response, ticker, searched, slot, inputs, outcomes,
                    valid_tickers, downloads, side_cards, typed, days_back,
                    raw_data, chart_data, norm_data, traces >>

Next ==
    \/ ReadInput
    \/ LeaveInputs
    \/ SidebarCard
    \/ PickTimeline
    \/ Download
    \/ Chart
    \/ Insight

Spec == Init /\ [][Next]_vars

-----------------------------------------------------------------------------
(* Claims about one run of the script *)

IsBlank(s) == \A k \in DOMAIN s : s[k] \in Whitespace

\* C2: when every text typed is empty or whitespace, every text resolves to
\* None, no provider call of any kind is made, no fundamentals, chart or
\* insight section is drawn, and the run ends without an error.
C2_BlankInputsEmptyReport ==
    /\ pc = "inputs" =>
          ((typed # "text") <=> \A k \in DOMAIN inputs : IsBlank(inputs[k]))
    /\ typed # "text" =>
          /\ \A k \in DOMAIN outcomes : outcomes[k] \in {None, NotAsked}
          /\ valid_tickers = << >>
          /\ searched = 0 /\ infoCalls = << >> /\ calCalls = << >> /\ downloads = 0
          /\ side_cards = << >> /\ traces = {} /\ insights = << >>
          /\ raw_data = EmptyFrame /\ norm_data = EmptyFrame
          /\ pc \in {"inputs", "timeline", "done"}
          /\ pc = "done" \/ ENABLED Next

\* a run whose inputs held only whitespace has ended, nothing fetched or drawn
C2_Witness ==
    /\ pc = "done"
    /\ typed = "spaces"
    /\ searched = 0 /\ infoCalls = << >> /\ downloads = 0
    /\ side_cards = << >> /\ traces = {} /\ insights = << >>

HasChart == chart_data.index # {}

\* the first date inside the selected window
T0 == SetMin(chart_data.index)

Hundred == Whole(100)

Requested == { valid_tickers[k] : k \in DOMAIN valid_tickers } \cup {Benchmark}

\* c has a close on some day of the window
PricedInWindow(c) ==
    /\ c \in Columns(raw_data)
    /\ \E d \in raw_data.index :
          /\ d >= SetMax(raw_data.index) - days_back
          /\ raw_data.cols[c][d] # NaN

\* C4: every column of the normalised frame that has a close inside the
\* window (the symbols the output is meant to hold) is exactly 100 at the
\* first date of the window.
C4_BaseIs100 ==
    HasChart =>
        \A c \in Columns(norm_data) :
            PricedInWindow(c) => norm_data.cols[c][T0] = Hundred

\* C5: the columns of the normalised frame are exactly the requested
\* symbols, and the benchmark, that have a close inside the window.
C5_KeysArePricedInWindow ==
    HasChart => Columns(norm_data) = { c \in Requested : PricedInWindow(c) }

\* C6: within one run no symbol's fundamentals are fetched from the
\* provider twice.
C6_OneFetchPerKey ==
    \A i, j \in DOMAIN infoCalls : i # j => infoCalls[i] # infoCalls[j]

RECURSIVE FirstOccurrences(_)
FirstOccurrences(seq) ==
    IF seq = << >> THEN << >>
    ELSE LET front == SubSeq(seq, 1, Len(seq) - 1)
             last  == seq[Len(seq)]
             done  == FirstOccurrences(front)
         IN  IF \E k \in DOMAIN front : front[k] = last THEN done
             ELSE Append(done, last)

IsResolved(o) == o # None /\ o # NotAsked

\* C7: the symbol list holds each symbol some text resolved to exactly once,
\* in the order of first occurrence; texts that resolve to None are skipped.
C7_DistinctInInputOrder ==
    pc = "inputs" => valid_tickers = FirstOccurrences(SelectSeq(outcomes, IsResolved))

\* every close of the provider, and a close a as a percentage of a close b
Prices == { Whole(Close(c, d)) : c \in {SymA, SymB, Benchmark}, d \in Days }

Rebased == [a \in Prices, b \in Prices |-> FloatMul(FloatDiv(a, b), Hundred)]

\* the close of c carried forward to day d inside the window
CarriedClose(c, d) ==
    LET seen == { e \in chart_data.index : e <= d /\ raw_data.cols[c][e] # NaN }
    IN  raw_data.cols[c][SetMax(seen)]

\* c has a close other than 0.0 at the first date of the window
SoundBase(c) ==
    /\ c \in Columns(raw_data)
    /\ raw_data.cols[c][T0].cls = "fin"
    /\ raw_data.cols[c][T0].sig # << >>

\* the integers at and beyond this magnitude have no float
\* (2^1024 - 2^970, halfway from the largest float to 2^1024)
FloatLimit == BigSub(Shl(BigOne, 1024), Shl(BigOne, 970))

\* the number of decimal digits of a natural number
RECURSIVE DecLen(_)
DecLen(m) == IF m < 10 THEN 1 ELSE 1 + DecLen(m \div 10)

\* m * 10^e is below FloatLimit; FloatLimit lies between 10^308 and 10^309,
\* so only a value with 309 digits needs the exact comparison
BelowFloatLimit(m, e) ==
    \/ m = 0
    \/ DecLen(m) + e <= 308
    \/ /\ DecLen(m) + e = 309
       /\ BigCmp(BigMul(BigFromInt(m), BigPow10(e)), FloatLimit) < 0

\* the fundamentals hold nothing the box cannot draw: the market cap is no
\* integer beyond the floats
Drawable(info) ==
    ("marketCap" \in DOMAIN info /\ info.marketCap.t \in {"int", "bool"}) =>
        BelowFloatLimit(IF info.marketCap.m < 0 THEN -info.marketCap.m
                        ELSE info.marketCap.m, info.marketCap.e)

\* C8: with several symbols, a symbol whose history or fundamentals fail
\* costs the others nothing: the run does not abort; the normalised series
\* of a symbol with a close at the first window date is its own closes as
\* percentages of that close, whatever the other columns hold, and has a
\* finite value on every date when that close is not 0.0; every symbol gets
\* its sidebar element and its insight column; a symbol with a column gets
\* its price metric, with a finite price and return when its first close
\* is not 0.0; and a symbol whose own fetch succeeds with fundamentals the
\* box can draw gets its box.
C8_IsolationAcrossSymbols ==
    Len(valid_tickers) >= 2 =>
        /\ raw_data.index # {} => pc # "crashed"
        /\ HasChart =>
              \A c \in Columns(raw_data) :
                  raw_data.cols[c][T0] # NaN =>
                      \A d \in chart_data.index :
                          /\ norm_data.cols[c][d] =
                                 Rebased[CarriedClose(c, d), raw_data.cols[c][T0]]
                          /\ SoundBase(c) => norm_data.cols[c][d].cls = "fin"
        /\ pc \in {"timeline", "download", "chart", "insights", "done"} =>
              side_cards = valid_tickers
        /\ pc = "insights" => insights = SubSeq(valid_tickers, 1, Len(insights))
        /\ pc = "done" => insights = valid_tickers
        /\ shown.kind = "insight" =>
              /\ shown.t \in Columns(chart_data) => shown.metric.kind = "metric"
              /\ SoundBase(shown.t) =>
                     (shown.metric.price.cls = "fin" /\ shown.metric.ret.cls = "fin")
              /\ (shown.info_ok /\ Drawable(shown.info)) => shown.box.kind = "box"

\* the first symbol lost its history and its fundamentals, the last one
\* still has its series from 100, its price metric and its box
C8_Witness ==
    /\ pc = "done"
    /\ Len(valid_tickers) = 2
    /\ valid_tickers[1] # valid_tickers[2]
    /\ valid_tickers[1] \in failed
    /\ valid_tickers[1] \in Columns(raw_data)
    /\ \A d \in raw_data.index : raw_data.cols[valid_tickers[1]][d] = NaN
    /\ shown.kind = "insight" /\ shown.t = valid_tickers[2]
    /\ shown.info_ok /\ shown.box.kind = "box"
    /\ shown.metric.kind = "metric" /\ shown.metric.price.cls = "fin"
    /\ Cardinality(chart_data.index) = 2
    /\ norm_data.cols[shown.t][T0] = Hundred
    /\ norm_data.cols[shown.t][SetMax(chart_data.index)] # Hundred

IsPositive(v) == \/ v.t \in {"int", "bool"} /\ v.m > 0
                 \/ v.t = "float" /\ v.x.cls # "nan" /\ ~v.x.neg /\ ~IsZero(v.x)

IsPositiveNumber(d, key) == key \in DOMAIN d /\ IsPositive(d[key])

\* C9: the forward P/E drawn is the snapshot's field when that is a positive
\* number, else price / forward EPS (a positive number) when forward EPS is
\* positive, else the mark of an unavailable value; never 0, a negative
\* number or a text of the provider.
C9_ForwardPEFallbackChain ==
    shown.kind = "card" =>
        /\ IsPositiveNumber(shown.info, "forwardPE") => shown.pe = shown.info.forwardPE
        /\ (~IsPositiveNumber(shown.info, "forwardPE")
              /\ IsPositiveNumber(shown.info, "forwardEps")) =>
                  IsPositive(shown.pe)
        /\ (~IsPositiveNumber(shown.info, "forwardPE")
              /\ ~IsPositiveNumber(shown.info, "forwardEps")) =>
                  shown.pe = Str(TextNA)

\* C10: when the fundamentals fetch of a symbol fails, its price and
\* return and its earnings countdown are still drawn; when only the price
\* lookup fails, the box is still drawn.
C10_IsolationWithinSymbol ==
    shown.kind = "insight" =>
        /\ (~shown.info_ok /\ shown.t \in Columns(chart_data)) =>
              (shown.metric.kind = "metric" /\ shown.box.kind = "box")
        /\ (shown.info_ok /\ shown.metric.kind = "error") => shown.box.kind = "box"

====
